---- MODULE Spec2Model ----
(***************************************************************************)
(* A model of smartdiff: the git-tree file system walk                     *)
(* (src/src/file_system.rs), the tile decoder and room renderer            *)
(* (src/src/room.rs) and the image difference (src/src/main.rs).           *)
(*                                                                         *)
(* Each component has its own specification over the shared variables:     *)
(*   SpecLoad    GitTreeFileSystem::load, one action per loop branch       *)
(*   SpecDecode  decode_8x8_tile_data_4bpp and decode_color on drawn inputs *)
(*   SpecRender  render_room, one action per step of its body              *)
(*   SpecDiff    diff_image on drawn images and baselines                  *)
(*   SpecUi      the application: get_initial_state, update's messages and *)
(*               RoomCanvas::draw                                          *)
(***************************************************************************)
EXTENDS Integers, Sequences, FiniteSets, TLC

VARIABLES
    \* ---- GitTreeFileSystem::load (file_system.rs:29-79)
    fs_pc,          \* "idle" | "walking" | "done": position of the load call
    path,           \* the path string handed to load, split at '/'
    obj,            \* `obj`: id of the current git object
    components,     \* `components`: the remaining-path stack, top = last element
    parents,        \* `parents`: stack of tree ids, top = last element
    symlink_limit,  \* `symlink_limit`
    load_result,    \* what load returned: [status, err, bytes]
    \* ---- history variables (not program state)
    met,            \* symlink entries this load has looked up so far
    prev_exhausted, \* TRUE once an earlier load ended with its budget at 0
    \* ---- the decoders of room.rs applied to one input
    dec_pc,         \* "idle" | "tile" | "packed" | "color": which decoder ran
    dec_in,         \* its argument
    dec_out,        \* its result
    \* ---- render_room (room.rs:296-342)
    r_pc,           \* "idle" | "cre" | "loop" | "render" | "done" | "panicked"
    file_system,    \* `file_system`: the provider, a key of FileSystems
    room,           \* `room`: the parsed room document
    cre_tileset,    \* `cre_tileset`
    tileset,        \* `tileset` of the state being rendered
    sce_gfx,        \* load_sce_tileset's `gfx` before the common bitmaps are added
    sce_tiles,      \* load_sce_tileset's `sce_tiles`
    state_idx,      \* number of states the loop has finished
    room_state_name_list,
    layer1_list,
    layer2_list,
    render_result,  \* what render_room returned: [status, images]
    \* ---- diff_image (main.rs:258-280)
    diff_pc,        \* "idle" | "done" | "panicked": position of the call
    diff_img1,      \* `img1`: the baseline image, [width, height, pixels]
    diff_img2,      \* `img2`: the candidate image
    diff_baseline,  \* `baseline`: the f32 coefficient, [m, e] for m * 2^e
    diff_img,       \* `img`: the image diff_image returned
    \* ---- the application state of main.rs (State, main.rs:84-106)
    ui_pc,          \* "off" | "running" | "failed" | "crashed"
    project,        \* `project`
    ui_room,        \* `room`: the name of the selected room
    room_list,      \* `room_list`: the options of the room combo box
    room_state_list,\* `room_state_list`: the options of the state combo box
    room_state,     \* `room_state`: RoomState(idx, name)
    modified_room_idx,
    show_layer_1,
    show_layer_2,
    difference_baseline,
    source_selection,
    working_images,
    other_images,
    working_image_handles,
    other_image_handles,
    diff_image_handles,
    pending,        \* the messages of the tasks update returned, not yet delivered
    frame           \* what the last RoomCanvas::draw put on the canvas

fsVars == <<fs_pc, path, obj, components, parents, symlink_limit, load_result,
            met, prev_exhausted>>

decVars == <<dec_pc, dec_in, dec_out>>

renderVars == <<r_pc, file_system, room, cre_tileset, tileset, sce_gfx, sce_tiles,
                state_idx, room_state_name_list, layer1_list, layer2_list,
                render_result>>

diffVars == <<diff_pc, diff_img1, diff_img2, diff_baseline, diff_img>>

uiVars == <<ui_pc, project, ui_room, room_list, room_state_list, room_state,
            modified_room_idx, show_layer_1, show_layer_2, difference_baseline,
            source_selection, working_images, other_images, working_image_handles,
            other_image_handles, diff_image_handles, pending, frame>>

vars == <<fsVars, decVars, renderVars, diffVars, uiVars>>

(***************************************************************************)
(* Bounds of the model                                                     *)
(***************************************************************************)
\* longest requested path, in components, drawn from ReqNames
MaxPathLen == 3
\* the chain paths d/l/l/.../l/f hold 0..SymlinkLimit+ChainSlack links
ChainSlack == 2

(***************************************************************************)
(* Sequence helpers                                                        *)
(***************************************************************************)
Last(s) == s[Len(s)]

Front(s) == SubSeq(s, 1, Len(s) - 1)

Reverse(s) == [i \in 1..Len(s) |-> s[Len(s) + 1 - i]]

(***************************************************************************)
(* Path strings.  A path string is modelled by its text split at every     *)
(* '/': "a/b" is <<"a","b">>, "/a" is <<"","a">>, "a//b" is <<"a","","b">>,  *)
(* "a/" is <<"a","">> and the empty string is << >>.                       *)
(***************************************************************************)
IsNormal(seg) == seg # "" /\ seg # "."

\* the segments that are names or "..", order kept
RECURSIVE NormalSegs(_)
NormalSegs(s) ==
    IF s = <<>> THEN <<>>
    ELSE IF IsNormal(s[1]) THEN <<s[1]>> \o NormalSegs(Tail(s))
    ELSE NormalSegs(Tail(s))

\* std::path::Path::components followed by as_os_str: a leading '/' is the
\* component "/", a leading "." is kept, every other "." and every empty
\* segment is dropped, ".." is kept
PathComponents(segs) ==
    IF segs = <<>> THEN <<>>
    ELSE IF segs[1] = "" THEN <<"/">> \o NormalSegs(Tail(segs))
    ELSE IF segs[1] = "." THEN <<".">> \o NormalSegs(Tail(segs))
    ELSE NormalSegs(segs)

\* the components without the reversal, first one first
get_components_unreversed(segs) == PathComponents(segs)

\* get_components: the components, last one first (`.rev()`)
get_components(segs) == Reverse(PathComponents(segs))

(***************************************************************************)
(* The git object database and the tree the file system is rooted at.      *)
(* A tree maps names to entries [mode, oid]; a blob has content, kept as a  *)
(* path string so that a symbolic link's content can be parsed.            *)
(***************************************************************************)
\* file_system.rs:56: the file mode of a symbolic link, 0xA000
SymlinkMode == 40960

\* file_system.rs:35
SymlinkLimit == 40

Entry(mode, oid) == [mode |-> mode, oid |-> oid]

Blob(content) == [kind |-> "blob", content |-> content, entries |-> <<>>]

Tree(entries) == [kind |-> "tree", content |-> <<>>, entries |-> entries]

Repo ==
    [ root |-> Tree(
          [ f   |-> Entry(33188, "blobF"),
            a   |-> Entry(16384, "treeA"),
            d   |-> Entry(16384, "treeD"),
            s   |-> Entry(SymlinkMode, "lnSelf"),
            esc |-> Entry(SymlinkMode, "lnEsc"),
            dir |-> Entry(SymlinkMode, "lnDir"),
            sub |-> Entry(57344, "absentCommit") ]),
      treeA |-> Tree(
          [ f   |-> Entry(33188, "blobG"),
            a   |-> Entry(16384, "treeB"),
            esc |-> Entry(SymlinkMode, "lnEsc"),
            up  |-> Entry(SymlinkMode, "lnUp") ]),
      treeB |-> Tree(
          [ f   |-> Entry(33188, "blobF"),
            up  |-> Entry(SymlinkMode, "lnUp") ]),
      treeD |-> Tree(
          [ f   |-> Entry(33188, "blobH"),
            l   |-> Entry(SymlinkMode, "lnBack"),
            p   |-> Entry(SymlinkMode, "lnP"),
            q   |-> Entry(SymlinkMode, "lnQ") ]),
      blobF  |-> Blob(<<"DATA_F">>),
      blobG  |-> Blob(<<"DATA_G">>),
      blobH  |-> Blob(<<"DATA_H">>),
      lnSelf |-> Blob(<<"s">>),
      lnEsc  |-> Blob(<<"..", "..", "x">>),
      lnDir  |-> Blob(<<"a">>),
      lnUp   |-> Blob(<<".", "..", "", "f">>),
      lnBack |-> Blob(<<"..", "d">>),
      \* two links that refer to each other
      lnP    |-> Blob(<<"q">>),
      lnQ    |-> Blob(<<"..", "d", "p">>),
      \* an object of the database that no tree under root refers to
      blobOutside |-> Blob(<<"OUTSIDE">>) ]

\* self.tree
RootTree == "root"

Kind(o) == Repo[o].kind

\* the names a requested path is built from
ReqNames == {"..", "a", "f", "s", "esc", "dir", "up", "sub", "x"}

RECURSIVE SeqsUpTo(_, _)
SeqsUpTo(S, n) ==
    IF n = 0 THEN {<<>>}
    ELSE LET shorter == SeqsUpTo(S, n - 1)
         IN  shorter \cup {<<x>> \o s : x \in S, s \in {t \in shorter : Len(t) = n - 1}}

\* d/l/l/.../l/f with n links l
ChainPath(n) == <<"d">> \o [i \in 1..n |-> "l"] \o <<"f">>

ReqPaths ==
    SeqsUpTo(ReqNames, MaxPathLen)
    \cup {ChainPath(n) : n \in 0..(SymlinkLimit + ChainSlack)}
    \cup {<<"", "f">>, <<".", "f">>, <<"a", "", ".", "f">>, <<"a", "">>, <<"d", "p", "f">>}

(***************************************************************************)
(* The parts of the state a component does not use stay as they start      *)
(***************************************************************************)
LoadIdle ==
    /\ fs_pc = "idle"
    /\ path = <<>>
    /\ obj = "root"
    /\ components = <<>>
    /\ parents = <<>>
    /\ symlink_limit = SymlinkLimit
    /\ load_result = [status |-> "none", err |-> "", bytes |-> <<>>]
    /\ met = 0
    /\ prev_exhausted = FALSE

DecodeIdle ==
    /\ dec_pc = "idle"
    /\ dec_in = <<>>
    /\ dec_out = <<>>

RenderIdle ==
    /\ r_pc = "idle"
    /\ file_system = "working"
    /\ room = [width |-> 0, height |-> 0, states |-> [state |-> <<>>]]
    /\ cre_tileset = [gfx |-> <<>>, tiles |-> <<>>]
    /\ tileset = [palette |-> <<>>, gfx |-> <<>>, tiles |-> <<>>]
    /\ sce_gfx = <<>>
    /\ sce_tiles = <<>>
    /\ state_idx = 0
    /\ room_state_name_list = <<>>
    /\ layer1_list = <<>>
    /\ layer2_list = <<>>
    /\ render_result = [status |-> "none", images |-> <<>>]

\* no diff_image call is in progress; the baseline is that of
\* get_initial_state (main.rs:178), the f32 nearest to 0.3
DiffIdle ==
    /\ diff_pc = "idle"
    /\ diff_img1 = [width |-> 0, height |-> 0, pixels |-> <<>>]
    /\ diff_img2 = [width |-> 0, height |-> 0, pixels |-> <<>>]
    /\ diff_baseline = [m |-> 10066330, e |-> -25]
    /\ diff_img = [width |-> 0, height |-> 0, pixels |-> <<>>]

\* Option: None is the empty sequence, Some(v) is <<v>>
None == <<>>

Some(v) == <<v>>

\* main.rs:41: RoomState(usize, String)
RoomState(idx, name) == [idx |-> idx, name |-> name]

\* main.rs:146-153: the projects found, sorted; the last one has no room document
Projects == <<"P1", "P2", "P3">>

\* main.rs:164-186: the State literal of get_initial_state, before its refreshes
UiIdle ==
    /\ ui_pc = "off"
    /\ project = Projects[1]
    /\ ui_room = ""
    /\ room_list = <<>>
    /\ room_state_list = <<>>
    /\ room_state = RoomState(0, "")
    /\ modified_room_idx = None
    /\ show_layer_1 = TRUE
    /\ show_layer_2 = TRUE
    /\ difference_baseline = [m |-> 10066330, e |-> -25]
    /\ source_selection = "WorkingCopy"
    /\ working_images = None
    /\ other_images = None
    /\ working_image_handles = None
    /\ other_image_handles = None
    /\ diff_image_handles = None
    /\ pending = <<>>
    /\ frame = <<>>

(***************************************************************************)
(* GitTreeFileSystem::load                                                 *)
(***************************************************************************)
\* what load leaves alone: it has no access to the rest of the state
LoadFrame == UNCHANGED <<decVars, renderVars, diffVars, uiVars>>

NoResult == [status |-> "none", err |-> "", bytes |-> <<>>]

Ok(bytes) == [status |-> "ok", err |-> "", bytes |-> bytes]

\* bail! / context(...)?: the error kinds are named after section 7 of the
\* specification; the code tells them apart by message
Err(kind) == [status |-> "err", err |-> kind, bytes |-> <<>>]

\* the budget is never found used up
LimitNeverReached(limit) == FALSE

\* line 58: `symlink_limit == 0`
LimitReached(limit) == limit = 0

\* a budget shared by all calls: a call starts with what the last one left
StaleLimit(left) == left

\* line 35: every call starts from a fresh budget; `left` is what the previous
\* call had left
FreshLimit(left) == SymlinkLimit

\* obj.as_tree() is Some
as_tree(o) == Kind(o) = "tree"

\* obj.as_blob() is Some
as_blob(o) == Kind(o) = "blob"

\* `..` at the root stays at the root, as in a POSIX file system
PopParentClamped(ps, cur) ==
    IF ps = <<>>
    THEN [fail |-> FALSE, obj |-> cur, parents |-> ps]
    ELSE [fail |-> FALSE, obj |-> Last(ps), parents |-> Front(ps)]

\* lines 38-45: what `..` does with the parent stack
PopParent(ps, cur) ==
    IF ps = <<>>
    THEN [fail |-> TRUE, obj |-> cur, parents |-> ps]
    ELSE [fail |-> FALSE, obj |-> Last(ps), parents |-> Front(ps)]

\* the content of whatever object the walk ended at
FinalResultUnchecked(o) == Ok(Repo[o].content)

\* lines 75-78: the value returned once no component is left
FinalResult(o) ==
    IF as_blob(o) THEN Ok(Repo[o].content) ELSE Err("NotABlob")

Done(res) ==
    /\ fs_pc' = "done"
    /\ load_result' = res
    /\ UNCHANGED prev_exhausted

\* lines 32-35: the call
StartLoad ==
    /\ LoadFrame
    /\ fs_pc = "idle"
    /\ \E p \in ReqPaths :
        /\ path' = p
        /\ components' = get_components(p)
    /\ obj' = RootTree
    /\ parents' = <<>>
    /\ symlink_limit' = FreshLimit(symlink_limit)
    /\ met' = 0
    /\ fs_pc' = "walking"
    /\ load_result' = NoResult
    /\ UNCHANGED prev_exhausted

\* lines 37-45: the popped component is `..`
StepParent ==
    /\ LoadFrame
    /\ fs_pc = "walking"
    /\ components # <<>>
    /\ Last(components) = ".."
    /\ components' = Front(components)
    /\ LET r == PopParent(parents, obj) IN
        /\ obj' = r.obj
        /\ parents' = r.parents
        /\ UNCHANGED <<path, symlink_limit, met>>
        /\ IF r.fail
           THEN Done(Err("OutOfRootTraversal"))
           ELSE UNCHANGED <<fs_pc, load_result, prev_exhausted>>

\* lines 47-55: the error of looking `name` up in object o, "" when the three
\* lookups (as_tree, get_name, to_object) succeed
LookupError(o, name) ==
    IF ~as_tree(o) THEN "NotADirectory"
    ELSE IF name \notin DOMAIN Repo[o].entries THEN "NotFound"
    ELSE IF Repo[o].entries[name].oid \notin DOMAIN Repo THEN "ToObject"
    ELSE ""

\* lines 47-55: a lookup fails
StepLookupFails ==
    /\ LoadFrame
    /\ fs_pc = "walking"
    /\ components # <<>>
    /\ Last(components) # ".."
    /\ LookupError(obj, Last(components)) # ""
    /\ components' = Front(components)
    /\ UNCHANGED <<path, obj, parents, symlink_limit, met>>
    /\ Done(Err(LookupError(obj, Last(components))))

\* the entry the popped component names, when all three lookups succeed
EntryFound ==
    /\ fs_pc = "walking"
    /\ components # <<>>
    /\ Last(components) # ".."
    /\ LookupError(obj, Last(components)) = ""

\* lines 56-67: the entry is a symbolic link
StepSymlink ==
    /\ LoadFrame
    /\ EntryFound
    /\ LET entry == Repo[obj].entries[Last(components)] IN
        /\ entry.mode = SymlinkMode
        /\ met' = met + 1
        /\ UNCHANGED <<path, obj, parents>>
        /\ IF LimitReached(symlink_limit)
           THEN /\ components' = Front(components)
                /\ UNCHANGED symlink_limit
                /\ Done(Err("SymlinkCycle"))
           ELSE /\ symlink_limit' = symlink_limit - 1
                /\ IF ~as_blob(entry.oid)
                   THEN /\ components' = Front(components)
                        /\ Done(Err("SymlinkNotABlob"))
                   ELSE /\ components' =
                               Front(components) \o get_components(Repo[entry.oid].content)
                        /\ UNCHANGED <<fs_pc, load_result, prev_exhausted>>

\* the entered object itself is pushed instead of the tree that contains it
StepEnterPushesEntered ==
    /\ LoadFrame
    /\ EntryFound
    /\ LET entry == Repo[obj].entries[Last(components)] IN
        /\ entry.mode # SymlinkMode
        /\ parents' = Append(parents, entry.oid)
        /\ obj' = entry.oid
        /\ components' = Front(components)
        /\ UNCHANGED <<path, symlink_limit, met, fs_pc, load_result, prev_exhausted>>

\* lines 68-72: any other entry becomes the current object
StepEnter ==
    /\ LoadFrame
    /\ EntryFound
    /\ LET entry == Repo[obj].entries[Last(components)] IN
        /\ entry.mode # SymlinkMode
        /\ parents' = Append(parents, obj)
        /\ obj' = entry.oid
        /\ components' = Front(components)
        /\ UNCHANGED <<path, symlink_limit, met, fs_pc, load_result, prev_exhausted>>

\* lines 75-78: no component is left
Finish ==
    /\ LoadFrame
    /\ fs_pc = "walking"
    /\ components = <<>>
    /\ UNCHANGED <<path, obj, parents, components, symlink_limit, met>>
    /\ Done(FinalResult(obj))

\* line 78 / every `?` and bail!: load returns and its locals are dropped; the
\* model keeps the dropped symlink_limit so that the next call's start can be
\* compared with it
Return ==
    /\ LoadFrame
    /\ fs_pc = "done"
    /\ fs_pc' = "idle"
    /\ path' = <<>>
    /\ obj' = RootTree
    /\ components' = <<>>
    /\ parents' = <<>>
    /\ load_result' = NoResult
    /\ met' = 0
    /\ prev_exhausted' = (prev_exhausted \/ symlink_limit = 0)
    /\ UNCHANGED symlink_limit

InitLoad ==
    /\ LoadIdle
    /\ DecodeIdle
    /\ RenderIdle
    /\ DiffIdle
    /\ UiIdle

NextLoad ==
    \/ StartLoad
    \/ StepParent
    \/ StepLookupFails
    \/ StepSymlink
    \/ StepEnter
    \/ Finish
    \/ Return

\* lines 36-78 run on the caller's thread without waiting for anything: an
\* iteration that can be taken is taken
LoadRuns == StepParent \/ StepLookupFails \/ StepSymlink \/ StepEnter \/ Finish

SpecLoad == InitLoad /\ [][NextLoad]_vars

\* load under the scheduling of a running thread
SpecLoadFair == InitLoad /\ [][NextLoad]_vars /\ WF_vars(LoadRuns)

(***************************************************************************)
(* Claims about GitTreeFileSystem::load, checked under SpecLoad            *)
(***************************************************************************)
Returned == fs_pc = "done"

\* the objects a walk from the root tree can name: the root and, through tree
\* entries, everything below it
\* the objects of the database that the entries of tree t name
Children(t) ==
    {Repo[t].entries[k].oid : k \in DOMAIN Repo[t].entries} \cap DOMAIN Repo

RECURSIVE Below(_, _)
Below(seen, n) ==
    IF n = 0 THEN seen
    ELSE Below(seen \cup UNION {Children(t) : t \in {u \in seen : Kind(u) = "tree"}},
               n - 1)

UnderRoot == Below({RootTree}, Cardinality(DOMAIN Repo))

\* C1: every load has its own budget of 40 symlink resolutions: while it walks,
\* the budget left is 40 minus the symlink entries this load has met, whatever
\* earlier loads used; a load that returns bytes met at most 40 of them; the
\* 41st makes it fail with SymlinkCycle and no bytes, and nothing else does; the
\* chain d/l/.../l/f with n links returns the file for n <= 40 and fails with
\* SymlinkCycle for n = 41 or more.
C1_SymlinkBudget ==
    /\ fs_pc = "walking" => met <= SymlinkLimit /\ symlink_limit = SymlinkLimit - met
    /\ Returned /\ load_result.status = "ok" => met <= SymlinkLimit
    /\ met > SymlinkLimit =>
          /\ Returned
          /\ met = SymlinkLimit + 1
          /\ load_result = Err("SymlinkCycle")
          /\ load_result.bytes = <<>>
    /\ Returned /\ load_result.err = "SymlinkCycle" => met = SymlinkLimit + 1
    /\ \A n \in 0..(SymlinkLimit + ChainSlack) :
          Returned /\ path = ChainPath(n) =>
              /\ met = IF n <= SymlinkLimit THEN n ELSE SymlinkLimit + 1
              /\ load_result = IF n <= SymlinkLimit THEN Ok(<<"DATA_H">>)
                                ELSE Err("SymlinkCycle")

\* C1 witness: after an earlier load used its budget up, a load that meets
\* exactly 40 symlink entries returns the file
C1_Witness ==
    /\ Returned
    /\ prev_exhausted
    /\ met = SymlinkLimit
    /\ load_result = Ok(<<"DATA_H">>)

\* C2: a `..` processed while the parent stack is empty, whether it comes from
\* the requested path or from a symlink target, ends the load with
\* OutOfRootTraversal and no bytes; the current object and every tree on the
\* parent stack are always objects under the root tree.
C2_OutOfRoot ==
    /\ [](/\ obj \in UnderRoot
          /\ \A i \in 1..Len(parents) : parents[i] \in UnderRoot /\ Kind(parents[i]) = "tree")
    /\ [][ (/\ fs_pc = "walking"
            /\ components # <<>>
            /\ Last(components) = ".."
            /\ parents = <<>>)
           => (/\ fs_pc' = "done"
               /\ load_result' = Err("OutOfRootTraversal")
               /\ load_result'.bytes = <<>>) ]_vars

\* C2 witness: the path `esc` at the root, whose symlink target ../../x injects
\* the `..`, has failed with OutOfRootTraversal
C2_Witness ==
    /\ Returned
    /\ path = <<"esc">>
    /\ met = 1
    /\ load_result = Err("OutOfRootTraversal")

\* C3: load returns bytes only when the object current after the last
\* component is a blob, and then that blob's content; a walk that ends at a
\* non-blob fails with NotABlob (the empty path, a path ending in `..`, a final
\* symlink to a directory); looking a name up in a non-tree fails with
\* NotADirectory; a failed load returns no bytes.
C3_BlobOnly ==
    /\ [](/\ Returned /\ load_result.status = "ok" =>
                /\ components = <<>>
                /\ as_blob(obj)
                /\ load_result.bytes = Repo[obj].content
          /\ Returned /\ load_result.status = "err" => load_result.bytes = <<>>
          /\ Returned /\ path = <<>> => load_result = Err("NotABlob")
          /\ Returned /\ path = <<"dir">> => load_result = Err("NotABlob")
          /\ Returned /\ path # <<>> /\ Last(path) = ".." =>
                load_result.err \in {"NotABlob", "OutOfRootTraversal", "NotADirectory",
                                     "NotFound", "ToObject", "SymlinkCycle"})
    /\ [][ (fs_pc = "walking" /\ components = <<>> /\ ~as_blob(obj))
           => (fs_pc' = "done" /\ load_result' = Err("NotABlob")) ]_vars
    /\ [][ (/\ fs_pc = "walking"
            /\ components # <<>>
            /\ Last(components) # ".."
            /\ ~as_tree(obj))
           => (fs_pc' = "done" /\ load_result' = Err("NotADirectory")) ]_vars

\* C3 witness: the path `dir`, a symlink to the directory a, has failed with
\* NotABlob at the tree it leads to
C3_Witness ==
    /\ Returned
    /\ path = <<"dir">>
    /\ obj = "treeA"
    /\ load_result = Err("NotABlob")

(***************************************************************************)
(* Bit arithmetic on unsigned integers                                     *)
(***************************************************************************)
\* v >> k
Shr(v, k) == v \div (2 ^ k)

\* v & (2^n - 1)
LowBits(v, n) == v % (2 ^ n)

\* (v >> k) & 1
Bit(v, k) == Shr(v, k) % 2

\* `as u8`
AsU8(v) == v % 256

\* `as u16`
AsU16(v) == v % 65536

(***************************************************************************)
(* The tile and colour decoders of room.rs.  A 32-byte block is a sequence *)
(* whose element i+1 is data[i]; an 8x8 bitmap is a function of the row     *)
(* 0..7 giving a function of the column 0..7.                              *)
(***************************************************************************)
\* the bit taken at column 7 - x read from the other end of the byte
decode_8x8_tile_data_4bpp_lsb_first(data) ==
    [y \in 0..7 |-> [x \in 0..7 |->
        LET addr == y * 2
        IN  AsU8(Bit(data[addr + 1], x) + 2 * Bit(data[addr + 2], x)
                 + 4 * Bit(data[addr + 17], x) + 8 * Bit(data[addr + 18], x))]]

\* room.rs:75-93.  bit_0 | bit_1 << 1 | bit_2 << 2 | bit_3 << 3 is a sum, the
\* four terms having no bit in common
decode_8x8_tile_data_4bpp(data) ==
    [y \in 0..7 |-> [x \in 0..7 |->
        LET addr   == y * 2
            data_0 == data[addr + 1]
            data_1 == data[addr + 2]
            data_2 == data[addr + 17]
            data_3 == data[addr + 18]
            bit_0  == Shr(data_0, 7 - x) % 2
            bit_1  == Shr(data_1, 7 - x) % 2
            bit_2  == Shr(data_2, 7 - x) % 2
            bit_3  == Shr(data_3, 7 - x) % 2
            c      == bit_0 + bit_1 * 2 + bit_2 * 4 + bit_3 * 8
        IN  AsU8(c)]]

\* each 5-bit channel stretched over the whole 8-bit range
decode_color_full_range(data) ==
    LET r == LowBits(data, 5)
        g == LowBits(Shr(data, 5), 5)
        b == LowBits(Shr(data, 10), 5)
    IN  <<AsU8((r * 255) \div 31), AsU8((g * 255) \div 31), AsU8((b * 255) \div 31)>>

\* room.rs:114-119
decode_color(data) ==
    LET r == LowBits(data, 5)
        g == LowBits(Shr(data, 5), 5)
        b == LowBits(Shr(data, 10), 5)
    IN  <<AsU8(r * 8), AsU8(g * 8), AsU8(b * 8)>>

(***************************************************************************)
(* SpecDecode: the decoders applied to inputs drawn from bounded sets      *)
(***************************************************************************)
\* the bytes around the one byte of a drawn block that takes every value
BlockFill == {0, 165, 255}

\* a 32-byte block: byte number p is v, the others are fill
BlockWith(p, v, fill) == [i \in 1..32 |-> IF i = p THEN v ELSE fill]

\* largest coefficient of the drawn bitmaps (a*x + b*y + c) mod 16
MaxCoef == 3

\* the inverse packer: the 32-byte block whose planes hold the bits of m
PackTile(m) ==
    [i \in 1..32 |->
        LET o     == i - 1
            y     == (o % 16) \div 2
            plane == (o % 2) + 2 * (o \div 16)
        IN  Bit(m[y][0], plane) * 128 + Bit(m[y][1], plane) * 64
            + Bit(m[y][2], plane) * 32 + Bit(m[y][3], plane) * 16
            + Bit(m[y][4], plane) * 8 + Bit(m[y][5], plane) * 4
            + Bit(m[y][6], plane) * 2 + Bit(m[y][7], plane)]

DecodeFrame == UNCHANGED <<fsVars, renderVars, diffVars, uiVars>>

\* decode_8x8_tile_data_4bpp of a drawn block
DecodeTile ==
    /\ DecodeFrame
    /\ dec_pc = "idle"
    /\ \E p \in 1..32, v \in 0..255, fill \in BlockFill :
        /\ dec_in' = BlockWith(p, v, fill)
        /\ dec_out' = decode_8x8_tile_data_4bpp(BlockWith(p, v, fill))
    /\ dec_pc' = "tile"

\* decode_8x8_tile_data_4bpp of the packed form of a drawn bitmap
DecodePacked ==
    /\ DecodeFrame
    /\ dec_pc = "idle"
    /\ \E a \in 0..MaxCoef, b \in 0..MaxCoef, c \in 0..15 :
        LET m == [y \in 0..7 |-> [x \in 0..7 |-> (a * x + b * y + c) % 16]]
        IN  /\ dec_in' = m
            /\ dec_out' = decode_8x8_tile_data_4bpp(PackTile(m))
    /\ dec_pc' = "packed"

\* decode_color of any u16
DecodeColor ==
    /\ DecodeFrame
    /\ dec_pc = "idle"
    /\ \E v \in 0..65535 :
        /\ dec_in' = v
        /\ dec_out' = decode_color(v)
    /\ dec_pc' = "color"

InitDecode ==
    /\ LoadIdle
    /\ DecodeIdle
    /\ RenderIdle
    /\ DiffIdle
    /\ UiIdle

NextDecode ==
    \/ DecodeTile
    \/ DecodePacked
    \/ DecodeColor

SpecDecode == InitDecode /\ [][NextDecode]_vars

(***************************************************************************)
(* Claims about the decoders, checked under SpecDecode                     *)
(***************************************************************************)
\* C8: the entry at row y, column x of the decoded bitmap is bit 7-x of
\* byte[2y], plus bit 7-x of byte[2y+1] shifted by 1, of byte[2y+16] by 2 and of
\* byte[2y+17] by 3, a value in 0..15; packing the decoded bitmap gives the 32
\* bytes back, and decoding a packed bitmap gives the bitmap back.
C8_TileDecodeBijection ==
    /\ dec_pc = "tile" =>
        /\ \A y \in 0..7, x \in 0..7 :
            /\ dec_out[y][x] \in 0..15
            /\ dec_out[y][x] =
                  Bit(dec_in[2 * y + 1], 7 - x)
                  + 2 * Bit(dec_in[2 * y + 2], 7 - x)
                  + 4 * Bit(dec_in[2 * y + 17], 7 - x)
                  + 8 * Bit(dec_in[2 * y + 18], 7 - x)
        /\ PackTile(dec_out) = dec_in
    /\ dec_pc = "packed" => dec_out = dec_in

\* C8 witness: a block whose only set bits are of byte 17 (row 0 of bit plane
\* 2), all eight of them, decoded to the bitmap with 4 along row 0
C8_Witness ==
    /\ dec_pc = "tile"
    /\ dec_in = BlockWith(17, 255, 0)
    /\ \A x \in 0..7 : dec_out[0][x] = 4
    /\ \A y \in 1..7, x \in 0..7 : dec_out[y][x] = 0

\* the 5-bit field number k (0 red, 1 green, 2 blue) of an RGB555 word
Field(v, k) == (v \div (32 ^ k)) % 32

\* v with its field number k replaced by f
WithField(v, k, f) == v - Field(v, k) * (32 ^ k) + f * (32 ^ k)

\* C9: for every 16-bit input decode_color returns 8 times each 5-bit field,
\* without overflow: each channel lies in 0..248, is a multiple of 8, grows
\* strictly when its field grows by one, the other channels staying as they
\* are; bit 15 is ignored; 0 decodes to [0,0,0] and 0x7FFF to [248,248,248].
C9_DecodeColor ==
    dec_pc = "color" =>
        /\ dec_out = <<8 * Field(dec_in, 0), 8 * Field(dec_in, 1), 8 * Field(dec_in, 2)>>
        /\ \A k \in 0..2 :
            /\ dec_out[k + 1] \in 0..248
            /\ dec_out[k + 1] % 8 = 0
            /\ Field(dec_in, k) < 31 =>
                LET next == decode_color(WithField(dec_in, k, Field(dec_in, k) + 1))
                IN  /\ next[k + 1] > dec_out[k + 1]
                    /\ \A j \in 0..2 : j # k => next[j + 1] = dec_out[j + 1]
        /\ decode_color((dec_in + 32768) % 65536) = dec_out
        /\ dec_in = 0 => dec_out = <<0, 0, 0>>
        /\ dec_in = 32767 => dec_out = <<248, 248, 248>>

\* C9 witness: 0x7FFF decoded to [248,248,248]
C9_Witness ==
    /\ dec_pc = "color"
    /\ dec_in = 32767
    /\ dec_out = <<248, 248, 248>>

(***************************************************************************)
(* Tile words and tiles                                                    *)
(***************************************************************************)
\* room.rs:95-103
decode_8x8_tile(x) ==
    [ idx      |-> LowBits(x, 10),
      palette  |-> LowBits(Shr(x, 10), 3),
      priority |-> LowBits(Shr(x, 13), 1) = 1,
      flip_x   |-> LowBits(Shr(x, 14), 1) = 1,
      flip_y   |-> LowBits(Shr(x, 15), 1) = 1 ]

\* u16::from_le_bytes
from_le_bytes(lo, hi) == lo + 256 * hi

\* room.rs:105-112; data is the 8-byte record, data[i] being element i+1
decode_16x16_tile(data) ==
    [ top_left     |-> decode_8x8_tile(from_le_bytes(data[1], data[2])),
      top_right    |-> decode_8x8_tile(from_le_bytes(data[3], data[4])),
      bottom_left  |-> decode_8x8_tile(from_le_bytes(data[5], data[6])),
      bottom_right |-> decode_8x8_tile(from_le_bytes(data[7], data[8])) ]

(***************************************************************************)
(* The asset files of a project, as the byte sequences a file system       *)
(* provider returns for them                                               *)
(***************************************************************************)
\* the bit plane that byte number o (0..31) of a 32-byte tile record belongs to
PlaneOf(o) == (o % 2) + 2 * (o \div 16)

\* the record of the bitmap that is colour index c everywhere
SolidTileBytes(c) == [i \in 1..32 |-> 255 * Bit(c, PlaneOf(i - 1))]

\* the record of the bitmap with index 1 along row 0, index 2 down column 0,
\* index 3 where they meet and index 0 elsewhere: no flip leaves it as it is
CornerTileBytes ==
    [i \in 1..32 |-> IF i = 1 THEN 255
                     ELSE IF i <= 16 /\ i % 2 = 0 THEN 128
                     ELSE 0]

\* the 16-bit word of a Tile8x8
TileWord(idx, palette, priority, flip_x, flip_y) ==
    idx + 1024 * palette + 8192 * priority + 16384 * flip_x + 32768 * flip_y

LeBytes(w) == <<w % 256, w \div 256>>

\* one 8-byte record of 16x16tiles.ttb
TtbRecord(tl, tr, bl, br) == LeBytes(tl) \o LeBytes(tr) \o LeBytes(bl) \o LeBytes(br)

\* palette.snes of graphics set g: 128 RGB555 words, all different
PaletteBytes(g) ==
    [i \in 1..256 |-> LeBytes((((i - 1) \div 2) * 257 + g * 4099 + 33) % 65536)[((i - 1) % 2) + 1]]

CreGfxBytes == SolidTileBytes(4) \o CornerTileBytes

CreTtbBytes ==
    TtbRecord(TileWord(0, 0, 0, 0, 0), TileWord(1, 1, 0, 0, 0),
              TileWord(2, 2, 0, 0, 0), TileWord(5, 3, 1, 0, 0))
    \o TtbRecord(TileWord(0, 1, 0, 1, 0), TileWord(3, 2, 0, 0, 1),
                 TileWord(6, 4, 0, 1, 1), TileWord(7, 5, 0, 0, 0))

SceGfxBytes(g) ==
    IF g = 0
    THEN CornerTileBytes \o SolidTileBytes(1) \o SolidTileBytes(2)
         \o CornerTileBytes \o SolidTileBytes(0) \o SolidTileBytes(3)
    ELSE SolidTileBytes(7) \o CornerTileBytes \o SolidTileBytes(9)
         \o SolidTileBytes(0) \o CornerTileBytes \o SolidTileBytes(15)

SceTtbBytes(g) ==
    TtbRecord(TileWord(g, 6, 0, 0, 0), TileWord(3, 7, 0, 1, 0),
              TileWord(1, 0, 0, 0, 1), TileWord(7, 1, 0, 1, 1))
    \o TtbRecord(TileWord(5, 2, 0, 0, 0), TileWord(6, 2, 1, 0, 0),
                 TileWord(7, 3, 0, 0, 1), TileWord(2, 3, 0, 1, 0))

\* PathBuf::join; a trailing '/' of dir is not doubled
Join(dir, name) == dir \o "/" \o name

HexDigits == <<"0", "1", "2", "3", "4", "5", "6", "7", "8", "9", "A", "B", "C", "D", "E", "F">>

RECURSIVE UpperHex(_)
UpperHex(n) ==
    IF n < 16 THEN HexDigits[n + 1] ELSE UpperHex(n \div 16) \o HexDigits[(n % 16) + 1]

\* format!("{:02X}", n)
Hex02(n) == IF n < 16 THEN "0" \o UpperHex(n) ELSE UpperHex(n)

\* room.rs:309
CreTilesetDir == "Export/Tileset/CRE/00"

\* room.rs:312, 322-323
SceTilesetPath(gfx_set) == Join("Export/Tileset/SCE", Hex02(gfx_set))

\* the files of the two providers: the working copy has graphics sets 00 and
\* 01, the git reference only 00 and of 11 an incomplete one
FileSystems ==
    [ working |->
        (Join(CreTilesetDir, "8x8tiles.gfx") :> CreGfxBytes)
        @@ (Join(CreTilesetDir, "16x16tiles.ttb") :> CreTtbBytes)
        @@ (Join(SceTilesetPath(0), "palette.snes") :> PaletteBytes(0))
        @@ (Join(SceTilesetPath(0), "8x8tiles.gfx") :> SceGfxBytes(0))
        @@ (Join(SceTilesetPath(0), "16x16tiles.ttb") :> SceTtbBytes(0))
        @@ (Join(SceTilesetPath(1), "palette.snes") :> PaletteBytes(1))
        @@ (Join(SceTilesetPath(1), "8x8tiles.gfx") :> SceGfxBytes(1))
        @@ (Join(SceTilesetPath(1), "16x16tiles.ttb") :> SceTtbBytes(1)),
      reference |->
        (Join(CreTilesetDir, "8x8tiles.gfx") :> CreGfxBytes)
        @@ (Join(CreTilesetDir, "16x16tiles.ttb") :> CreTtbBytes)
        @@ (Join(SceTilesetPath(0), "palette.snes") :> PaletteBytes(0))
        @@ (Join(SceTilesetPath(0), "8x8tiles.gfx") :> SceGfxBytes(0))
        @@ (Join(SceTilesetPath(0), "16x16tiles.ttb") :> SceTtbBytes(0))
        @@ (Join(SceTilesetPath(17), "palette.snes") :> PaletteBytes(1))
        @@ (Join(SceTilesetPath(17), "8x8tiles.gfx") :> SceGfxBytes(1)),
      bare |->
        (Join(CreTilesetDir, "8x8tiles.gfx") :> CreGfxBytes),
      \* files that end inside a record: the palette of set 00 lacks its last
      \* byte, the bitmaps of set 01 have one byte more, the tile table of
      \* set 02 has one byte more
      ragged |->
        (Join(CreTilesetDir, "8x8tiles.gfx") :> CreGfxBytes)
        @@ (Join(CreTilesetDir, "16x16tiles.ttb") :> CreTtbBytes)
        @@ (Join(SceTilesetPath(0), "palette.snes") :> Front(PaletteBytes(0)))
        @@ (Join(SceTilesetPath(0), "8x8tiles.gfx") :> SceGfxBytes(0))
        @@ (Join(SceTilesetPath(0), "16x16tiles.ttb") :> SceTtbBytes(0))
        @@ (Join(SceTilesetPath(1), "palette.snes") :> PaletteBytes(1))
        @@ (Join(SceTilesetPath(1), "8x8tiles.gfx") :> SceGfxBytes(1) \o <<0>>)
        @@ (Join(SceTilesetPath(1), "16x16tiles.ttb") :> SceTtbBytes(1))
        @@ (Join(SceTilesetPath(2), "palette.snes") :> PaletteBytes(0))
        @@ (Join(SceTilesetPath(2), "8x8tiles.gfx") :> SceGfxBytes(0))
        @@ (Join(SceTilesetPath(2), "16x16tiles.ttb") :> SceTtbBytes(0) \o <<0>>),
      \* whole files, but a palette of 32 colours and four bitmaps only
      short |->
        (Join(CreTilesetDir, "8x8tiles.gfx") :> CreGfxBytes)
        @@ (Join(CreTilesetDir, "16x16tiles.ttb") :> CreTtbBytes)
        @@ (Join(SceTilesetPath(0), "palette.snes") :> SubSeq(PaletteBytes(0), 1, 64))
        @@ (Join(SceTilesetPath(0), "8x8tiles.gfx") :> SceGfxBytes(0))
        @@ (Join(SceTilesetPath(0), "16x16tiles.ttb") :> SceTtbBytes(0))
        @@ (Join(SceTilesetPath(1), "palette.snes") :> PaletteBytes(1))
        @@ (Join(SceTilesetPath(1), "8x8tiles.gfx") :> SubSeq(SceGfxBytes(1), 1, 64))
        @@ (Join(SceTilesetPath(1), "16x16tiles.ttb") :> SceTtbBytes(1)) ]

\* FileSystem::load of a provider: the bytes, or the provider's failure
FsLoad(fs, p) ==
    IF p \in DOMAIN FileSystems[fs]
    THEN [status |-> "ok", value |-> FileSystems[fs][p]]
    ELSE [status |-> "err", value |-> <<>>]

(***************************************************************************)
(* The loaders of room.rs.  Each returns [status, value]: "ok" with the     *)
(* value, "err" when the file system fails, "panic" when an index runs     *)
(* past the end of the file's bytes.                                       *)
(***************************************************************************)
Loaded(v) == [status |-> "ok", value |-> v]

LoadErr == [status |-> "err", value |-> <<>>]

LoadPanic == [status |-> "panic", value |-> <<>>]

\* what a loop `while i < len { .. bytes[i .. i + rec] ..; i += rec }` reads of
\* the bytes r of a file: one record per rec bytes, a panic on a last partial
\* one; no record when the load of the file failed
ReadRecords(r, rec) ==
    IF r.status # "ok" THEN LoadErr
    ELSE IF Len(r.value) % rec # 0 THEN LoadPanic
    ELSE Loaded([k \in 1..(Len(r.value) \div rec) |->
                    SubSeq(r.value, (k - 1) * rec + 1, k * rec)])

\* room.rs:128: the u16 of the two bytes of a record
ColorOfBytes(b) == decode_color(b[1] + 256 * b[2])

\* room.rs:125-133
PaletteOf(records) ==
    IF records.status # "ok" THEN records
    ELSE Loaded([k \in 1..Len(records.value) |-> ColorOfBytes(records.value[k])])

\* room.rs:121-134
load_palette(fs, p) == PaletteOf(ReadRecords(FsLoad(fs, p), 2))

\* room.rs:140-146
GfxOf(records) ==
    IF records.status # "ok" THEN records
    ELSE Loaded([k \in 1..Len(records.value) |-> decode_8x8_tile_data_4bpp(records.value[k])])

\* room.rs:136-148
load_8x8_gfx(fs, p) == GfxOf(ReadRecords(FsLoad(fs, p), 32))

\* room.rs:154-163
TilesOf(records) ==
    IF records.status # "ok" THEN records
    ELSE Loaded([k \in 1..Len(records.value) |-> decode_16x16_tile(records.value[k])])

\* room.rs:150-165
load_16x16_gfx(fs, p) == TilesOf(ReadRecords(FsLoad(fs, p), 8))

\* the status of a sequence of loads made one after the other, each followed
\* by `?`: that of the first that is not "ok"
RECURSIVE FirstFailure(_)
FirstFailure(rs) ==
    IF rs = <<>> THEN "ok"
    ELSE IF rs[1].status # "ok" THEN rs[1].status
    ELSE FirstFailure(Tail(rs))

\* room.rs:167-171
\* room.rs:170: the CRETileset made of the two loads, if both succeeded
CRETileset(gfx, tiles) ==
    IF FirstFailure(<<gfx, tiles>>) # "ok"
    THEN [status |-> FirstFailure(<<gfx, tiles>>), value |-> <<>>]
    ELSE Loaded([gfx |-> gfx.value, tiles |-> tiles.value])

\* room.rs:167-171
load_cre_tileset(fs, dir) ==
    CRETileset(load_8x8_gfx(fs, Join(dir, "8x8tiles.gfx")),
               load_16x16_gfx(fs, Join(dir, "16x16tiles.ttb")))

\* the specific tiles first, the common ones after them
MergeTilesSpecificFirst(cre_tiles, specific) == specific \o cre_tiles

\* room.rs:183-184: `tiles = cre_tileset.tiles.clone(); tiles.extend(sce_tiles)`
MergeTiles(cre_tiles, specific) == cre_tiles \o specific

\* the common bitmaps first, the specific ones after them
MergeGfxCommonFirst(cre_gfx, specific) == cre_gfx \o specific

\* room.rs:179, 182: `gfx = load_8x8_gfx(..); gfx.extend(cre_tileset.gfx.clone())`
MergeGfx(cre_gfx, specific) == specific \o cre_gfx

\* room.rs:179-189: the Tileset made of the three loads, if all succeeded, with
\* the locals gfx (as loaded, before it is extended) and sce_tiles
Tileset(palette, gfx, tiles, cre) ==
    IF FirstFailure(<<palette, gfx, tiles>>) # "ok"
    THEN [ status |-> FirstFailure(<<palette, gfx, tiles>>), value |-> <<>>,
           sce_gfx |-> <<>>, sce_tiles |-> <<>> ]
    ELSE [ status    |-> "ok",
           value     |-> [ palette |-> palette.value,
                           gfx     |-> MergeGfx(cre.gfx, gfx.value),
                           tiles   |-> MergeTiles(cre.tiles, tiles.value) ],
           sce_gfx   |-> gfx.value,
           sce_tiles |-> tiles.value ]

\* room.rs:173-190
load_sce_tileset(fs, dir, cre) ==
    Tileset(load_palette(fs, Join(dir, "palette.snes")),
            load_8x8_gfx(fs, Join(dir, "8x8tiles.gfx")),
            load_16x16_gfx(fs, Join(dir, "16x16tiles.ttb")),
            cre)

(***************************************************************************)
(* Images and the painters of room.rs.                                     *)
(*                                                                         *)
(* A rendered image's pixel buffer is kept as the list of the              *)
(* render_tile_8x8 calls made on it since Image::new, in call order: the   *)
(* buffer is a function of that list and of the tileset the calls were     *)
(* made with, and PixelAt replays the loop of render_tile_8x8 to read one  *)
(* pixel of it.  (256 x 256 pixels per screen are too many to keep one by  *)
(* one.)                                                                   *)
(***************************************************************************)
\* room.rs:18-24
ImageNew(width, height) == [width |-> width, height |-> height, paints |-> <<>>]

\* one call render_tile_8x8(image, x0, y0, tile, tileset)
Paint(x0, y0, tile) == [x |-> x0, y |-> y0, tile |-> tile]

\* room.rs:196-198: the texel the call reads for offset (x, y) of its block
TexelAt(tile, ts, x, y) ==
    LET x1 == IF tile.flip_x THEN 7 - x ELSE x
        y1 == IF tile.flip_y THEN 7 - y ELSE y
    IN  ts.gfx[tile.idx + 1][y1][x1]

\* room.rs:32, 204: the number of the pixel that set_pixel(x0 + x, y0 + y)
\* writes in a buffer w pixels wide
PixelNumber(w, x, y) == y * w + x

\* room.rs:193-204 on a buffer of w x h pixels: the call panics when the bitmap
\* index is past the bitmaps, or when a texel that is not 0 has its palette
\* slot past the palette or its pixel past the buffer
PaintPanics(p, ts, w, h) ==
    \/ p.tile.idx >= Len(ts.gfx)
    \/ /\ \/ p.tile.palette * 16 + 15 >= Len(ts.palette)
          \/ PixelNumber(w, p.x + 7, p.y + 7) >= w * h
       /\ \E dx \in 0..7, dy \in 0..7 :
            /\ TexelAt(p.tile, ts, dx, dy) # 0
            /\ \/ p.tile.palette * 16 + TexelAt(p.tile, ts, dx, dy) >= Len(ts.palette)
               \/ PixelNumber(w, p.x + dx, p.y + dy) >= w * h

\* whether call p writes pixel number n of a buffer w wide (its texel there is
\* not 0)
PaintWrites(p, ts, w, n) ==
    /\ n - PixelNumber(w, p.x, p.y) \in 0..(7 * w + 7)
    /\ \E dy \in 0..7 :
        LET dx == n - PixelNumber(w, p.x, p.y + dy)
        IN  dx \in 0..7 /\ TexelAt(p.tile, ts, dx, dy) # 0

\* the colour call p writes to pixel number n
PaintColor(p, ts, w, n) ==
    LET dy == CHOOSE d \in 0..7 : n - PixelNumber(w, p.x, p.y + d) \in 0..7
        dx == n - PixelNumber(w, p.x, p.y + dy)
    IN  ts.palette[p.tile.palette * 16 + TexelAt(p.tile, ts, dx, dy) + 1]

SetMax(S) == CHOOSE m \in S : \A k \in S : k <= m

\* room.rs:26-37, 192-207: the four bytes of pixel (x, y) of a rendered image
\* as the calls numbered in `calls` leave it when no other call writes it: zero
\* if none wrote it, else the colour of the last that did, alpha 255
PixelAmong(image, ts, x, y, calls) ==
    LET n    == PixelNumber(image.width, x, y)
        hits == {k \in calls : PaintWrites(image.paints[k], ts, image.width, n)}
    IN  IF hits = {} THEN <<0, 0, 0, 0>>
        ELSE PaintColor(image.paints[SetMax(hits)], ts, image.width, n) \o <<255>>

\* pixel (x, y) of a rendered image
PixelAt(image, ts, x, y) == PixelAmong(image, ts, x, y, 1..Len(image.paints))

\* room.rs:209-220: the four calls of render_tile_16x16, in order
render_tile_16x16(x0, y0, tile) ==
    << Paint(x0, y0, tile.top_left),
       Paint(x0 + 8, y0, tile.top_right),
       Paint(x0, y0 + 8, tile.bottom_left),
       Paint(x0 + 8, y0 + 8, tile.bottom_right) >>

FlipX(t) == [t EXCEPT !.flip_x = ~@]

FlipY(t) == [t EXCEPT !.flip_y = ~@]

\* the quadrants swapped in both directions, their own flags left as they are
ScreenFlipSwapOnly(tile, tile_flip_x, tile_flip_y) ==
    LET a == IF tile_flip_x
             THEN [ top_left |-> tile.top_right, top_right |-> tile.top_left,
                    bottom_left |-> tile.bottom_right, bottom_right |-> tile.bottom_left ]
             ELSE tile
    IN  IF tile_flip_y
        THEN [ top_left |-> a.bottom_left, top_right |-> a.bottom_right,
               bottom_left |-> a.top_left, bottom_right |-> a.top_right ]
        ELSE a

\* room.rs:275-290: the screen-level flips applied to a copy of the tile, the
\* horizontal one first
ScreenFlip(tile, tile_flip_x, tile_flip_y) ==
    LET a == IF tile_flip_x
             THEN [ top_left     |-> FlipX(tile.top_right),
                    top_right    |-> FlipX(tile.top_left),
                    bottom_left  |-> FlipX(tile.bottom_right),
                    bottom_right |-> FlipX(tile.bottom_left) ]
             ELSE tile
    IN  IF tile_flip_y
        THEN [ top_left     |-> FlipY(a.bottom_left),
               top_right    |-> FlipY(a.bottom_right),
               bottom_left  |-> FlipY(a.top_left),
               bottom_right |-> FlipY(a.top_right) ]
        ELSE a

\* room.rs:271: `(data & 0x3FF) as usize`
TileIdx(data) == LowBits(data, 10)

\* room.rs:265-291: the calls made for word number i (from 0) of a screen
ScreenWordPaints(screen, i, ts) ==
    LET x0          == screen.x * 16
        y0          == screen.y * 16
        data        == screen.data[i + 1]
        x           == (i % 16) + x0
        y           == (i \div 16) + y0
        tile_idx    == TileIdx(data)
        tile_flip_x == Bit(data, 10) # 0
        tile_flip_y == Bit(data, 11) # 0
        tile        == ScreenFlip(ts.tiles[tile_idx + 1], tile_flip_x, tile_flip_y)
    IN  render_tile_16x16(x * 16, y * 16, tile)

\* room.rs:268-292: the calls made for one screen
ScreenPaints(screen, ts) ==
    [k \in 1..(4 * Len(screen.data)) |->
        ScreenWordPaints(screen, (k - 1) \div 4, ts)[((k - 1) % 4) + 1]]

\* room.rs:263-294: the calls render_screens makes, screen after screen
RECURSIVE ScreensPaints(_, _)
ScreensPaints(screens, ts) ==
    IF screens = <<>> THEN <<>>
    ELSE ScreenPaints(screens[1], ts) \o ScreensPaints(Tail(screens), ts)

\* room.rs:274: `tileset.tiles[tile_idx]` panics for some word of the screens
TileIdxPanics(screens, ts) ==
    \E s \in 1..Len(screens) : \E i \in 1..Len(screens[s].data) :
        TileIdx(screens[s].data[i]) >= Len(ts.tiles)

SomePaintPanics(paints, ts, w, h) ==
    \E k \in 1..Len(paints) : PaintPanics(paints[k], ts, w, h)

\* render_screens on an image of w x h pixels panics
render_screens_panics(screens, ts, w, h) ==
    \/ TileIdxPanics(screens, ts)
    \/ SomePaintPanics(ScreensPaints(screens, ts), ts, w, h)

\* the screens' calls put before everything painted so far
render_screens_beneath(screens, image, ts) ==
    [image EXCEPT !.paints = ScreensPaints(screens, ts) \o @]

\* room.rs:263-294
render_screens(screens, image, ts) ==
    [image EXCEPT !.paints = @ \o ScreensPaints(screens, ts)]

\* room.rs:228-231: `decode_8x8_tile(word as u16)`
BgTile(word) == decode_8x8_tile(AsU16(word))

\* every region's tiles painted in the first 256x256 region
BlockPaintsFirstRegionOnly(data, w, h) ==
    IF data.type_ # "DECOMP" \/ Len(data.source) # 1024 THEN <<>>
    ELSE [k \in 1..((h \div 256) * (w \div 256) * 1024) |->
            LET i == (k - 1) % 1024
            IN  Paint((i % 32) * 8, (i \div 32) * 8, decode_8x8_tile(AsU16(data.source[i + 1])))]

\* room.rs:224-258: the calls made for one data block on an image of w x h
\* pixels
BlockPaints(data, w, h) ==
    IF data.type_ # "DECOMP" THEN <<>>
    ELSE IF Len(data.source) = 1024
    THEN [k \in 1..((h \div 256) * (w \div 256) * 1024) |->
            LET s        == (k - 1) \div 1024
                i        == (k - 1) % 1024
                screen_y == s \div (w \div 256)
                screen_x == s % (w \div 256)
                x        == screen_x * 256 + (i % 32) * 8
                y        == screen_y * 256 + (i \div 32) * 8
            IN  Paint(x, y, BgTile(data.source[i + 1]))]
    ELSE IF Len(data.source) = 2048
    THEN [k \in 1..((h \div 256) * (w \div 512) * 2048) |->
            LET s         == (k - 1) \div 2048
                i         == (k - 1) % 2048
                screen_y  == s \div (w \div 512)
                screen_x2 == s % (w \div 512)
            IN  IF i < 1024
                THEN Paint(screen_x2 * 512 + (i % 32) * 8,
                           screen_y * 256 + (i \div 32) * 8,
                           BgTile(data.source[i + 1]))
                ELSE Paint(screen_x2 * 512 + 256 + (i % 32) * 8,
                           screen_y * 256 + ((i - 1024) \div 32) * 8,
                           BgTile(data.source[i + 1]))]
    ELSE <<>>

\* room.rs:222-261: the calls render_bgdata makes, block after block
RECURSIVE BgPaints(_, _, _)
BgPaints(blocks, w, h) ==
    IF blocks = <<>> THEN <<>>
    ELSE BlockPaints(blocks[1], w, h) \o BgPaints(Tail(blocks), w, h)

\* room.rs:222-261
render_bgdata(bgdata, image) ==
    [image EXCEPT !.paints = @ \o BgPaints(bgdata.data, image.width, image.height)]

render_bgdata_panics(bgdata, ts, w, h) ==
    SomePaintPanics(BgPaints(bgdata.data, w, h), ts, w, h)

(***************************************************************************)
(* The rooms a render request is made for                                  *)
(***************************************************************************)
\* a room is at most MaxDim screens wide and high, and width + height is at
\* most MaxDim + 1
MaxDim == 2

\* most states of a room
MaxStates == 2

\* smart_xml.rs:42-49
Screen(x, y, data) == [x |-> x, y |-> y, data |-> data]

\* smart_xml.rs:72-81
BGDataData(type_, source) == [type_ |-> type_, source |-> source]

\* screen words that go through the four tiles of the merged tile table and,
\* every four words, through the four settings of bits 10 and 11; bits 12 and
\* 13 are set in some
ScreenData(n) ==
    [k \in 1..n |-> ((k - 1) % 4) + 1024 * (((k - 1) \div 4) % 4) + 4096 * (((k - 1) \div 16) % 4)]

\* 32-bit background words: word 0 is tile 5, palette 2, no flips; the others
\* go through the bitmaps, the palettes and the flips; odd ones have bit 16 set
BgSource(n) ==
    [k \in 1..n |->
        IF k = 1 THEN TileWord(5, 2, 0, 0, 0)
        ELSE TileWord((k - 1) % 8, ((k - 1) \div 8) % 8, ((k - 1) \div 64) % 2,
                      ((k - 1) \div 128) % 2, ((k - 1) \div 256) % 2)
             + 65536 * ((k - 1) % 2)]

\* a 2048-word background: the words of BgSource for the left half and the
\* same words moved up by one place for the right half
DoubleSource ==
    [k \in 1..2048 |->
        IF k <= 1024 THEN BgSource(1024)[k] ELSE BgSource(1024)[((k - 1024) % 1024) + 1]]

StateKinds == {"plain", "far", "bg", "bgover", "bg2", "off", "nogfx", "wild"}

\* smart_xml.rs:89-100: a state of a room w screens wide and h high
\*   plain   one full layer-1 screen, graphics set 00
\*   far     layer-1 and layer-2 screens in the last column and row, set 01
\*   bg      a 1024-word DECOMP block among blocks that are skipped, set 00
\*   bgover  a 1024-word DECOMP block under a layer-2 screen, set 01
\*   bg2     a 2048-word DECOMP block, set 00
\*   off     a layer-1 screen in the column after the last, set 00
\*   nogfx   graphics set 02, which no provider has whole
\*   wild    a layer-1 screen in the column after the last, and a tile word
\*           past the tile table in layer 2
StateXml(kind, w, h) ==
    [ condition  |-> IF kind = "plain" THEN "default" ELSE kind,
      arg        |-> IF kind = "far" THEN 14 ELSE 0,
      gfx_set    |-> CASE kind \in {"plain", "bg", "bg2", "off", "wild"} -> 0
                       [] kind \in {"far", "bgover"} -> 1
                       [] OTHER -> 2,
      level_data |->
        [ layer_1 |-> [screen |->
              CASE kind = "plain" -> <<Screen(0, 0, ScreenData(256))>>
                [] kind = "far"   -> <<Screen(0, 0, ScreenData(20)), Screen(w - 1, h - 1, ScreenData(40))>>
                [] kind \in {"off", "wild"} -> <<Screen(w, 0, ScreenData(3))>>
                [] OTHER          -> <<Screen(0, 0, ScreenData(3))>>],
          layer_2 |-> [screen |->
              CASE kind = "far"    -> <<Screen(w - 1, h - 1, ScreenData(20))>>
                [] kind = "bgover" -> <<Screen(0, 0, ScreenData(20))>>
                [] kind = "wild"   -> <<Screen(0, 0, <<1, 4>>)>>
                [] OTHER           -> <<>>] ],
      bg_data    |-> [data |->
          CASE kind = "bg"     -> << BGDataData("L2BG", BgSource(1024)),
                                     BGDataData("DECOMP", BgSource(5)),
                                     BGDataData("DECOMP", BgSource(1024)) >>
            [] kind = "bgover" -> << BGDataData("DECOMP", BgSource(1024)) >>
            [] kind = "bg2"    -> << BGDataData("DECOMP", DoubleSource) >>
            [] OTHER           -> <<>>] ]

\* smart_xml.rs:108-116
Room(w, h, kinds) ==
    [ width  |-> w,
      height |-> h,
      states |-> [state |-> [k \in 1..Len(kinds) |-> StateXml(kinds[k], w, h)]] ]

RoomDims == {d \in (1..MaxDim) \X (1..MaxDim) : d[1] + d[2] <= MaxDim + 1}

\* the order the kinds of state follow one another in a room document
KindOrder == <<"plain", "far", "bg", "bgover", "bg2", "off", "nogfx", "wild">>

\* the states of a room differ in their conditions: no state, or up to
\* MaxStates kinds that follow one another in KindOrder, taken round
StateKindSeqs ==
    {<<>>} \cup
    { [k \in 1..n |-> KindOrder[((i + k - 2) % Len(KindOrder)) + 1]] :
        i \in 1..Len(KindOrder), n \in 1..MaxStates }

Rooms == {Room(d[1], d[2], kinds) : d \in RoomDims, kinds \in StateKindSeqs}

(***************************************************************************)
(* render_room                                                             *)
(***************************************************************************)
NoRoomResult == [status |-> "none", images |-> <<>>]

\* room.rs:337-341
RoomOk(names, l1, l2) ==
    [ status |-> "ok",
      images |-> [room_state_names |-> names, layer1 |-> l1, layer2 |-> l2] ]

RoomErr == [status |-> "err", images |-> <<>>]

\* the states rendered before the failure handed back as the result
ReturnRendered(names, l1, l2) == RoomOk(names, l1, l2)

\* room.rs:324: `?` inside the loop returns the error; the lists built so far
\* are dropped
FailInLoop(names, l1, l2) == RoomErr

\* room.rs:319
RoomStateName(state_xml) == state_xml.condition \o ": " \o ToString(state_xml.arg)

\* the height taken for both sides of the image
ImageWidthFromHeight(r) == r.height * 256

\* room.rs:325
ImageWidth(r) == r.width * 256

\* room.rs:326
ImageHeight(r) == r.height * 256

RenderFrame == UNCHANGED <<fsVars, decVars, diffVars, uiVars>>

\* room.rs:301-307: the room document is loaded and parsed
StartRender ==
    /\ RenderFrame
    /\ r_pc = "idle"
    /\ \E fs \in DOMAIN FileSystems, r \in Rooms :
        /\ file_system' = fs
        /\ room' = r
    /\ r_pc' = "cre"
    /\ UNCHANGED <<cre_tileset, tileset, sce_gfx, sce_tiles, state_idx,
                   room_state_name_list, layer1_list, layer2_list, render_result>>

\* room.rs:302-307: the document is missing, is not UTF-8 or does not parse
RoomLoadFails ==
    /\ RenderFrame
    /\ r_pc = "idle"
    /\ \E fs \in DOMAIN FileSystems : file_system' = fs
    /\ r_pc' = "done"
    /\ render_result' = RoomErr
    /\ UNCHANGED <<room, cre_tileset, tileset, sce_gfx, sce_tiles, state_idx,
                   room_state_name_list, layer1_list, layer2_list>>

\* room.rs:309-316: `?` on the result cre of load_cre_tileset
CreLoaded(cre) ==
    /\ r_pc' = CASE cre.status = "ok" -> "loop"
                 [] cre.status = "err" -> "done"
                 [] OTHER -> "panicked"
    /\ cre_tileset' = IF cre.status = "ok" THEN cre.value ELSE cre_tileset
    /\ render_result' = IF cre.status = "err" THEN RoomErr ELSE render_result

\* room.rs:309-316
LoadCre ==
    /\ RenderFrame
    /\ r_pc = "cre"
    /\ CreLoaded(load_cre_tileset(file_system, CreTilesetDir))
    /\ state_idx' = 0
    /\ room_state_name_list' = <<>>
    /\ layer1_list' = <<>>
    /\ layer2_list' = <<>>
    /\ UNCHANGED <<file_system, room, tileset, sce_gfx, sce_tiles>>

\* room.rs:320-324: `?` on the result loaded of load_sce_tileset
SceLoaded(loaded) ==
    /\ r_pc' = CASE loaded.status = "ok" -> "render"
                 [] loaded.status = "err" -> "done"
                 [] OTHER -> "panicked"
    /\ tileset' = IF loaded.status = "ok" THEN loaded.value ELSE tileset
    /\ sce_gfx' = IF loaded.status = "ok" THEN loaded.sce_gfx ELSE sce_gfx
    /\ sce_tiles' = IF loaded.status = "ok" THEN loaded.sce_tiles ELSE sce_tiles
    /\ render_result' =
          IF loaded.status = "err"
          THEN FailInLoop(room_state_name_list', layer1_list, layer2_list)
          ELSE render_result

\* room.rs:318-326: the next state's name is pushed and its tileset loaded
StateLoadTileset ==
    /\ RenderFrame
    /\ r_pc = "loop"
    /\ state_idx < Len(room.states.state)
    /\ room_state_name_list' =
          Append(room_state_name_list, RoomStateName(room.states.state[state_idx + 1]))
    /\ SceLoaded(load_sce_tileset(file_system,
                                   SceTilesetPath(room.states.state[state_idx + 1].gfx_set),
                                   cre_tileset))
    /\ UNCHANGED <<file_system, room, cre_tileset, state_idx, layer1_list, layer2_list>>

\* room.rs:325-335: both layers of the state are painted and pushed
StateRender ==
    /\ RenderFrame
    /\ r_pc = "render"
    /\ LET state_xml == room.states.state[state_idx + 1]
           width     == ImageWidth(room)
           height    == ImageHeight(room)
           screens1  == state_xml.level_data.layer_1.screen
           screens2  == state_xml.level_data.layer_2.screen
       IN
        IF \/ render_screens_panics(screens1, tileset, width, height)
           \/ render_bgdata_panics(state_xml.bg_data, tileset, width, height)
           \/ render_screens_panics(screens2, tileset, width, height)
        THEN /\ r_pc' = "panicked"
             /\ UNCHANGED <<state_idx, layer1_list, layer2_list>>
        ELSE /\ r_pc' = "loop"
             /\ state_idx' = state_idx + 1
             /\ layer1_list' =
                   Append(layer1_list,
                          render_screens(screens1, ImageNew(width, height), tileset))
             /\ layer2_list' =
                   Append(layer2_list,
                          render_screens(screens2,
                                         render_bgdata(state_xml.bg_data,
                                                       ImageNew(width, height)),
                                         tileset))
    /\ UNCHANGED <<file_system, room, cre_tileset, tileset, sce_gfx, sce_tiles,
                   room_state_name_list, render_result>>

\* room.rs:337-341
FinishRender ==
    /\ RenderFrame
    /\ r_pc = "loop"
    /\ state_idx = Len(room.states.state)
    /\ r_pc' = "done"
    /\ render_result' = RoomOk(room_state_name_list, layer1_list, layer2_list)
    /\ UNCHANGED <<file_system, room, cre_tileset, tileset, sce_gfx, sce_tiles,
                   state_idx, room_state_name_list, layer1_list, layer2_list>>

InitRender ==
    /\ LoadIdle
    /\ DecodeIdle
    /\ RenderIdle
    /\ DiffIdle
    /\ UiIdle

NextRender ==
    \/ StartRender
    \/ RoomLoadFails
    \/ LoadCre
    \/ StateLoadTileset
    \/ StateRender
    \/ FinishRender

SpecRender == InitRender /\ [][NextRender]_vars

(***************************************************************************)
(* Claims about render_room, checked under SpecRender                      *)
(***************************************************************************)
\* render_room has returned
RoomReturned == r_pc = "done"

\* the states of the room the request is for
States == room.states.state

\* the number of 16-bit words in all the screens of a layer
RECURSIVE WordCount(_)
WordCount(screens) ==
    IF screens = <<>> THEN 0 ELSE Len(screens[1].data) + WordCount(Tail(screens))

\* C4: render_room returns an error or a complete RoomImages.  A result is
\* there only once the call has returned, and it is an error (with no images)
\* or a RoomImages in which room_state_names, layer1 and layer2 have one entry
\* per state of the room, in state order (entry k is named after state k and
\* holds four paints per layer-1 word of state k), every image being
\* room.width*256 wide and room.height*256 high; whenever a load fails, for the
\* last state too, the result is the error.
C4_CompleteOrError ==
    /\ render_result.status \in {"none", "ok", "err"}
    /\ RoomReturned <=> render_result.status # "none"
    /\ render_result.status = "err" => render_result.images = <<>>
    /\ render_result.status = "ok" =>
        LET im == render_result.images
            N  == Len(States)
        IN  /\ Len(im.room_state_names) = N
            /\ Len(im.layer1) = N
            /\ Len(im.layer2) = N
            /\ \A k \in 1..N :
                /\ im.room_state_names[k]
                      = States[k].condition \o ": " \o ToString(States[k].arg)
                /\ im.layer1[k].width = room.width * 256
                /\ im.layer1[k].height = room.height * 256
                /\ im.layer2[k].width = room.width * 256
                /\ im.layer2[k].height = room.height * 256
                /\ Len(im.layer1[k].paints)
                      = 4 * WordCount(States[k].level_data.layer_1.screen)
    /\ (RoomReturned /\ state_idx < Len(States)) => render_result.status = "err"

\* C4 witness: the tileset of the last of two states fails to load after the
\* first state was rendered, in a room that is not square, and the call has
\* returned the error
C4_Witness ==
    /\ RoomReturned
    /\ render_result = RoomErr
    /\ Len(States) = 2
    /\ state_idx = 1
    /\ Len(layer1_list) = 1
    /\ Len(room_state_name_list) = 2
    /\ room.width = 2
    /\ room.height = 1

\* C4 witness of the other outcome: two states rendered and returned
C4_WitnessComplete ==
    /\ RoomReturned
    /\ render_result.status = "ok"
    /\ Len(render_result.images.layer1) = 2
    /\ room.width = 2
    /\ room.height = 1

\* C10: in the merged tileset the 16x16 tile list holds the common tiles at
\* the low end and the specific tiles after them: merged.tiles[i] is
\* common.tiles[i] for every i below the number of common tiles and
\* merged.tiles[number of common tiles + j] is specific.tiles[j] for every j,
\* the specific tiles being the records of the state's 16x16tiles.ttb.
C10_MergedTilesOrder ==
    r_pc = "render" =>
        LET common == cre_tileset.tiles
            n      == Len(common)
            ttb    == FileSystems[file_system]
                        [Join(SceTilesetPath(States[state_idx + 1].gfx_set), "16x16tiles.ttb")]
        IN  /\ Len(tileset.tiles) = n + Len(sce_tiles)
            /\ \A i \in 0..(n - 1) : tileset.tiles[i + 1] = common[i + 1]
            /\ \A j \in 0..(Len(sce_tiles) - 1) : tileset.tiles[n + j + 1] = sce_tiles[j + 1]
            /\ Len(sce_tiles) * 8 = Len(ttb)
            /\ \A j \in 0..(Len(sce_tiles) - 1) :
                sce_tiles[j + 1] = decode_16x16_tile(SubSeq(ttb, 8 * j + 1, 8 * j + 8))

\* C10 witness: a tileset merged from two common and two specific tiles, the
\* first common one differing from the first specific one
C10_Witness ==
    /\ r_pc = "render"
    /\ Len(cre_tileset.tiles) = 2
    /\ Len(sce_tiles) = 2
    /\ Len(tileset.tiles) = 4
    /\ cre_tileset.tiles[1] # sce_tiles[1]
    /\ tileset.tiles[1] = cre_tileset.tiles[1]
    /\ tileset.tiles[3] = sce_tiles[1]

\* the images at the end of the lists and the tileset are those of the state
\* render_room has just rendered
JustRendered == r_pc = "loop" /\ state_idx >= 1

\* the quadrant in column qx and row qy (0 or 1) of a 16x16 tile
Quadrant(t, qx, qy) ==
    IF qy = 0
    THEN (IF qx = 0 THEN t.top_left ELSE t.top_right)
    ELSE (IF qx = 0 THEN t.bottom_left ELSE t.bottom_right)

\* a quadrant with both of its own flip flags inverted
BothInverted(q) == [q EXCEPT !.flip_x = ~@, !.flip_y = ~@]

\* the four calls an image records for word i of screen number j, its last
\* calls being those of render_screens for these screens
ScreenCalls(image, screens, j, i) ==
    SubSeq(image.paints,
           Len(image.paints) - 4 * WordCount(screens)
             + 4 * (WordCount(SubSeq(screens, 1, j - 1)) + i) + 1,
           Len(image.paints) - 4 * WordCount(screens)
             + 4 * (WordCount(SubSeq(screens, 1, j - 1)) + i) + 4)

\* what word i of a screen is to paint: the quadrant in column qx and row qy
\* comes from the column across when bit 10 is set and from the row across
\* when bit 11 is set, its flip_x inverted by bit 10 and its flip_y by bit 11
FlippedQuadrant(word, tiles, qx, qy) ==
    [ Quadrant(tiles[(word % 1024) + 1],
               IF (word \div 1024) % 2 = 1 THEN 1 - qx ELSE qx,
               IF (word \div 2048) % 2 = 1 THEN 1 - qy ELSE qy)
      EXCEPT !.flip_x = (@ # ((word \div 1024) % 2 = 1)),
             !.flip_y = (@ # ((word \div 2048) % 2 = 1)) ]

\* the call expected for the quadrant in column qx and row qy of word i
QuadrantCall(screen, i, tiles, qx, qy) ==
    [ x    |-> screen.x * 256 + (i % 16) * 16 + 8 * qx,
      y    |-> screen.y * 256 + (i \div 16) * 16 + 8 * qy,
      tile |-> FlippedQuadrant(screen.data[i + 1], tiles, qx, qy) ]

\* the calls recorded for the screens are the expected ones
ScreensAsExpected(image, screens, tiles) ==
    \A j \in 1..Len(screens) : \A i \in 0..(Len(screens[j].data) - 1) :
        /\ ScreenCalls(image, screens, j, i)
              = << QuadrantCall(screens[j], i, tiles, 0, 0),
                   QuadrantCall(screens[j], i, tiles, 1, 0),
                   QuadrantCall(screens[j], i, tiles, 0, 1),
                   QuadrantCall(screens[j], i, tiles, 1, 1) >>
        /\ (screens[j].data[i + 1] \div 1024) % 4 = 3 =>
              << ScreenCalls(image, screens, j, i)[1].tile,
                 ScreenCalls(image, screens, j, i)[2].tile,
                 ScreenCalls(image, screens, j, i)[3].tile,
                 ScreenCalls(image, screens, j, i)[4].tile >>
              = << BothInverted(tiles[(screens[j].data[i + 1] % 1024) + 1].bottom_right),
                   BothInverted(tiles[(screens[j].data[i + 1] % 1024) + 1].bottom_left),
                   BothInverted(tiles[(screens[j].data[i + 1] % 1024) + 1].top_right),
                   BothInverted(tiles[(screens[j].data[i + 1] % 1024) + 1].top_left) >>

\* C6: for every screen at grid position (x, y) and every word i of its data,
\* render_screens takes tile-table entry word & 0x3FF, applies the screen-level
\* flips on top of the quadrants' own (bit 10 swaps the left and right
\* quadrants and inverts each quadrant's flip_x, bit 11 swaps the top and
\* bottom ones and inverts each quadrant's flip_y) and paints the four
\* quadrants of the result at pixel (x*256 + (i%16)*16, y*256 + (i/16)*16);
\* with both bits set a tile A,B / C,D is painted as D,C / B,A, each quadrant
\* with both of its own flip flags inverted.
C6_ScreenFlips ==
    JustRendered =>
        /\ ScreensAsExpected(layer1_list[state_idx],
                             States[state_idx].level_data.layer_1.screen, tileset.tiles)
        /\ ScreensAsExpected(layer2_list[state_idx],
                             States[state_idx].level_data.layer_2.screen, tileset.tiles)

\* C6 witness: word 12 of the screen at grid position (1, 0) has bits 10 and 11
\* set and names tile 0, whose four quadrants differ, and its bottom-right
\* quadrant was painted at (448, 0) with both flags inverted
C6_Witness ==
    /\ JustRendered
    /\ Len(States[state_idx].level_data.layer_1.screen) = 2
    /\ States[state_idx].level_data.layer_1.screen[2].x = 1
    /\ States[state_idx].level_data.layer_1.screen[2].y = 0
    /\ States[state_idx].level_data.layer_1.screen[2].data[13] = 3072
    /\ Cardinality({Quadrant(tileset.tiles[1], qx, qy) : qx \in 0..1, qy \in 0..1}) = 4
    /\ ScreenCalls(layer1_list[state_idx], States[state_idx].level_data.layer_1.screen, 2, 12)[1]
          = [x |-> 448, y |-> 0, tile |-> BothInverted(tileset.tiles[1].bottom_right)]

\* the number of calls render_bgdata makes for one block on an image of
\* w x h pixels
BlockCalls(block, w, h) ==
    IF block.type_ # "DECOMP" THEN 0
    ELSE IF Len(block.source) = 1024 THEN (h \div 256) * (w \div 256) * 1024
    ELSE IF Len(block.source) = 2048 THEN (h \div 256) * (w \div 512) * 2048
    ELSE 0

\* the number of calls made for all the blocks of a sequence
RECURSIVE CallsOf(_, _, _)
CallsOf(blocks, w, h) ==
    IF blocks = <<>> THEN 0
    ELSE BlockCalls(blocks[1], w, h) + CallsOf(Tail(blocks), w, h)

\* a 16-bit word read as a Tile8x8, field by field
PlainTile(word) ==
    [ idx      |-> word % 1024,
      palette  |-> (word \div 1024) % 8,
      priority |-> (word \div 8192) % 2 = 1,
      flip_x   |-> (word \div 16384) % 2 = 1,
      flip_y   |-> (word \div 32768) % 2 = 1 ]

\* a DECOMP block of exactly 1024 words
FullScreenBlock(block) == block.type_ = "DECOMP" /\ Len(block.source) = 1024

\* the calls recorded for block number b are, in every 256x256 region (sx, sy)
\* of the image, one per word i, at ((i%32)*8, (i/32)*8) of the region, with
\* the low 16 bits of the word read as a Tile8x8
BlockAsExpected(image, blocks, b) ==
    LET before == CallsOf(SubSeq(blocks, 1, b - 1), image.width, image.height) IN
    \A sy \in 0..(room.height - 1), sx \in 0..(room.width - 1), i \in 0..1023 :
        image.paints[before + (sy * room.width + sx) * 1024 + i + 1]
          = [ x    |-> sx * 256 + (i % 32) * 8,
              y    |-> sy * 256 + (i \div 32) * 8,
              tile |-> PlainTile(blocks[b].source[i + 1] % 65536) ]

\* the calls that can write a pixel of the 8x8 block at (x0, y0): those whose
\* own block starts less than 8 rows before or after it in the buffer
CallsNear(image, x0, y0) ==
    {k \in 1..Len(image.paints) :
        PixelNumber(image.width, image.paints[k].x, image.paints[k].y)
          - PixelNumber(image.width, x0, y0)
            \in (0 - 7 * image.width - 7)..(7 * image.width + 7)}

\* nothing was painted on the image after the calls made for block number b
LastPainter(image, blocks, b) ==
    Len(image.paints) = CallsOf(SubSeq(blocks, 1, b), image.width, image.height)

\* C7: for a background block of type DECOMP with exactly 1024 words,
\* render_bgdata paints word i as a plain Tile8x8 (no screen-level flip bits)
\* at pixel ((i%32)*8, (i/32)*8) inside every 256x256 region of the room image,
\* so that every region receives the same 32x32 grid of tiles; when word 0 is
\* tile 5, palette 2, no flips, and bitmap 5 is colour index 3 everywhere, the
\* 8x8 pixels at (0,0) are opaque and of palette slot 2*16+3 (as long as
\* nothing is painted over them afterwards).
C7_FullScreenBackground ==
    JustRendered =>
        \A b \in 1..Len(States[state_idx].bg_data.data) :
            FullScreenBlock(States[state_idx].bg_data.data[b]) =>
                /\ BlockAsExpected(layer2_list[state_idx], States[state_idx].bg_data.data, b)
                /\ ( /\ LastPainter(layer2_list[state_idx], States[state_idx].bg_data.data, b)
                     /\ PlainTile(States[state_idx].bg_data.data[b].source[1] % 65536)
                          = [idx |-> 5, palette |-> 2, priority |-> FALSE,
                             flip_x |-> FALSE, flip_y |-> FALSE]
                     /\ \A y \in 0..7, x \in 0..7 : tileset.gfx[6][y][x] = 3 )
                   => LET near == CallsNear(layer2_list[state_idx], 0, 0) IN
                      \A y \in 0..7, x \in 0..7 :
                        PixelAmong(layer2_list[state_idx], tileset, x, y, near)
                          = tileset.palette[2 * 16 + 3 + 1] \o <<255>>

\* C7 witness: in a room two screens wide, a 1024-word DECOMP block that
\* follows two skipped blocks was painted in both regions, its word 0 being
\* tile 5, palette 2 and bitmap 5 being colour 3 everywhere; the pixel at
\* (0,0) has the colour of palette slot 35
C7_Witness ==
    /\ JustRendered
    /\ room.width = 2
    /\ room.height = 1
    /\ Len(States[state_idx].bg_data.data) = 3
    /\ FullScreenBlock(States[state_idx].bg_data.data[3])
    /\ States[state_idx].bg_data.data[3].source[1] = 2053
    /\ States[state_idx].level_data.layer_2.screen = <<>>
    /\ Len(layer2_list[state_idx].paints) = 2048
    /\ layer2_list[state_idx].paints[1025].x = 256
    /\ \A y \in 0..7, x \in 0..7 : tileset.gfx[6][y][x] = 3
    /\ PixelAt(layer2_list[state_idx], tileset, 0, 0) = tileset.palette[36] \o <<255>>

(***************************************************************************)
(* Single-precision numbers.  An f32 that is not negative is [m, e], the   *)
(* number m * 2^e with m < 2^24; products are kept in two parts, hi * 4096 *)
(* + lo, so that no intermediate value needs more than 31 bits.            *)
(***************************************************************************)
\* the number of bits of n
BitLen(n) == IF n = 0 THEN 0 ELSE CHOOSE b \in 1..31 : 2 ^ (b - 1) <= n /\ (b = 31 \/ n < 2 ^ b)

\* n / 2^s rounded to the nearest integer, a tie going to the even one
RoundHalfEven(n, s) ==
    IF s = 0 THEN n
    ELSE (n \div 2 ^ s)
         + (IF \/ n % 2 ^ s > 2 ^ (s - 1)
               \/ (n % 2 ^ s = 2 ^ (s - 1) /\ (n \div 2 ^ s) % 2 = 1)
            THEN 1 ELSE 0)

\* the exponent E in 23..30 for which h/100 * 2^E lies in [2^23, 2^24)
HundredthScale(h) ==
    CHOOSE E \in 23..30 :
        /\ 2 ^ E >= (100 * 2 ^ 23 + h - 1) \div h
        /\ E > 23 => 2 ^ (E - 1) < (100 * 2 ^ 23 + h - 1) \div h

\* the f32 nearest to h/100: the value the slider of main.rs:568-575 (range
\* 0.0..=1.0, step 0.01) hands to AdjustDifferenceBaseline at its step number
\* h, and for h = 30 the literal 0.3 of main.rs:178
F32OfHundredths(h) ==
    IF h = 0 THEN [m |-> 0, e |-> 0]
    ELSE [ m |-> h * (2 ^ HundredthScale(h) \div 100)
                 + (h * (2 ^ HundredthScale(h) % 100)) \div 100
                 + (IF \/ (h * (2 ^ HundredthScale(h) % 100)) % 100 > 50
                       \/ /\ (h * (2 ^ HundredthScale(h) % 100)) % 100 = 50
                          /\ (h * (2 ^ HundredthScale(h) \div 100)
                              + (h * (2 ^ HundredthScale(h) % 100)) \div 100) % 2 = 1
                    THEN 1 ELSE 0),
           e |-> 0 - HundredthScale(h) ]

\* the exact product p * m of a byte and a mantissa, as <<hi, lo>>
ExactProduct(p, m) ==
    << p * (m \div 4096) + (p * (m % 4096)) \div 4096, (p * (m % 4096)) % 4096 >>

\* `p as f32 * k`: the product rounded to 24 significant bits, as <<hi, lo>>
\* with lo <= 4096; the bits dropped are the lowest BitLen(hi) - 12 of lo
F32Mul(p, k) ==
    LET exact   == ExactProduct(p, k.m)
        dropped == BitLen(exact[1]) - 12
    IN  IF dropped <= 0 THEN exact
        ELSE <<exact[1], RoundHalfEven(exact[2], dropped) * 2 ^ dropped>>

\* `(p as f32 * k) as u8`: the f32 product truncated toward zero and
\* saturated at 255, for k = 0 or k of exponent -12 or less
F32MulAsU8(p, k) ==
    IF k.m = 0 THEN 0
    ELSE LET product == F32Mul(p, k)
             whole   == (product[1] + product[2] \div 4096) \div 2 ^ (0 - k.e - 12)
         IN  IF whole > 255 THEN 255 ELSE whole

(***************************************************************************)
(* Pixel buffers (room.rs:11-38) and diff_image (main.rs:258-280).  Here an *)
(* image is [width, height, pixels], byte i of the buffer being element    *)
(* i+1 of pixels.                                                          *)
(***************************************************************************)
\* room.rs:18-24
Image_new(width, height) ==
    [width |-> width, height |-> height, pixels |-> [i \in 1..(width * height * 4) |-> 0]]

\* room.rs:26-29
get_pixel(image, x, y) ==
    << image.pixels[(y * image.width + x) * 4 + 1],
       image.pixels[(y * image.width + x) * 4 + 2],
       image.pixels[(y * image.width + x) * 4 + 3] >>

\* room.rs:27-28: the indexing of get_pixel runs past the buffer
get_pixel_panics(image, x, y) == (y * image.width + x) * 4 + 2 >= Len(image.pixels)

\* Image::get_transparent, which main.rs:266 calls: alpha 0 denotes an
\* untouched, transparent pixel
get_transparent(image, x, y) == image.pixels[(y * image.width + x) * 4 + 4] = 0

\* the candidate's pixel deciding what stays untouched
diff_pixel_keyed_on_candidate(a, b, k, x, y) ==
    IF get_pixel(a, x, y) # get_pixel(b, x, y) THEN <<255, 255, 255, 255>>
    ELSE IF ~get_transparent(b, x, y)
    THEN << F32MulAsU8(get_pixel(a, x, y)[1], k),
            F32MulAsU8(get_pixel(a, x, y)[2], k),
            F32MulAsU8(get_pixel(a, x, y)[3], k), 255 >>
    ELSE <<0, 0, 0, 0>>

\* main.rs:262-277: the four bytes of pixel (x, y) of img after the loop body
\* ran for it, set_pixel (room.rs:31-37) writing alpha 255
diff_pixel(a, b, k, x, y) ==
    IF get_pixel(a, x, y) # get_pixel(b, x, y) THEN <<255, 255, 255, 255>>
    ELSE IF ~get_transparent(a, x, y)
    THEN << F32MulAsU8(get_pixel(a, x, y)[1], k),
            F32MulAsU8(get_pixel(a, x, y)[2], k),
            F32MulAsU8(get_pixel(a, x, y)[3], k), 255 >>
    ELSE <<0, 0, 0, 0>>

\* main.rs:260-263: some get_pixel of the loop panics
diff_image_panics(a, b) ==
    \E y \in 0..(a.height - 1), x \in 0..(a.width - 1) :
        get_pixel_panics(a, x, y) \/ get_pixel_panics(b, x, y)

\* main.rs:258-280
diff_image(a, b, k) ==
    [ Image_new(a.width, a.height) EXCEPT
        !.pixels = [i \in 1..(a.width * a.height * 4) |->
                      diff_pixel(a, b, k, ((i - 1) \div 4) % a.width,
                                 ((i - 1) \div 4) \div a.width)[((i - 1) % 4) + 1]] ]

(***************************************************************************)
(* SpecDiff: diff_image applied to images and baselines drawn from bounded *)
(* sets                                                                    *)
(***************************************************************************)
\* most pixels of a drawn image
MaxPixels == 2

\* the pixels a rendered image holds: untouched, or a decode_color colour
\* written with alpha 255 (black, and two colours that differ in one channel)
SamplePixels == {<<0, 0, 0, 0>>} \cup {decode_color(w) \o <<255>> : w \in {0, 2041, 3065}}

\* the shapes of the drawn images
Shapes == {s \in (1..MaxPixels) \X (1..MaxPixels) : s[1] * s[2] <= MaxPixels}

\* the image of a shape whose pixel number n (row after row) is f[n]
ImageOf(s, f) ==
    [ width  |-> s[1],
      height |-> s[2],
      pixels |-> [i \in 1..(s[1] * s[2] * 4) |-> f[((i - 1) \div 4) + 1][((i - 1) % 4) + 1]] ]

Images == UNION {{ImageOf(s, f) : f \in [1..(s[1] * s[2]) -> SamplePixels]} : s \in Shapes}

\* the slider steps whose baselines are drawn
Hundredths == {1, 30, 53, 100}

Baselines == {F32OfHundredths(h) : h \in Hundredths}

DiffFrame == UNCHANGED <<fsVars, decVars, renderVars, uiVars>>

\* one call diff_image(img1, img2, baseline)
DiffImage ==
    /\ DiffFrame
    /\ diff_pc = "idle"
    /\ \E a \in Images, b \in Images, k \in Baselines :
        /\ diff_img1' = a
        /\ diff_img2' = b
        /\ diff_baseline' = k
        /\ IF diff_image_panics(a, b)
           THEN /\ diff_pc' = "panicked"
                /\ UNCHANGED diff_img
           ELSE /\ diff_pc' = "done"
                /\ diff_img' = diff_image(a, b, k)

InitDiff ==
    /\ LoadIdle
    /\ DecodeIdle
    /\ RenderIdle
    /\ DiffIdle
    /\ UiIdle

NextDiff == DiffImage

SpecDiff == InitDiff /\ [][NextDiff]_vars

(***************************************************************************)
(* Claims about diff_image, checked under SpecDiff                         *)
(***************************************************************************)
\* diff_image has returned the difference of two images of the same shape
Diffed ==
    /\ diff_pc = "done"
    /\ diff_img1.width = diff_img2.width
    /\ diff_img1.height = diff_img2.height

\* the RGB triple of pixel (x, y) of an image
Rgb(image, x, y) == SubSeq(image.pixels, (y * image.width + x) * 4 + 1, (y * image.width + x) * 4 + 3)

\* the alpha byte of pixel (x, y) of an image
Alpha(image, x, y) == image.pixels[(y * image.width + x) * 4 + 4]

\* the four bytes of pixel (x, y) of an image
Rgba(image, x, y) == SubSeq(image.pixels, (y * image.width + x) * 4 + 1, (y * image.width + x) * 4 + 4)

\* floor(p * k) for a byte p and k = m * 2^e with m = 0 or e <= -12
FloorOfProduct(p, k) ==
    IF k.m = 0 THEN 0 ELSE ExactProduct(p, k.m)[1] \div 2 ^ (0 - k.e - 12)

\* what p * k lacks to the next integer n = floor(p * k) + 1, in units of 2^e
ShortOfNext(p, k) ==
    2 ^ (0 - k.e)
    - ((ExactProduct(p, k.m)[1] % 2 ^ (0 - k.e - 12)) * 4096 + ExactProduct(p, k.m)[2])

\* p * k lies within half a unit in the last place of the next integer n: the
\* f32 numbers just below n, where 2^j < n <= 2^(j+1), are 2^(j-23) apart
WithinHalfUlpOfNext(p, k) ==
    /\ k.m # 0
    /\ BitLen(FloorOfProduct(p, k)) - 1 - 24 - k.e >= 0
    /\ ShortOfNext(p, k) <= 2 ^ (BitLen(FloorOfProduct(p, k)) - 1 - 24 - k.e)

\* p * k in single precision, truncated
Darkened(p, k) ==
    IF WithinHalfUlpOfNext(p, k) THEN FloorOfProduct(p, k) + 1 ELSE FloorOfProduct(p, k)

\* the channel p of a darkened pixel: floor(p * k) when exact, else p * k in
\* single precision, truncated
Dark(p, k, exact) == IF exact THEN FloorOfProduct(p, k) ELSE Darkened(p, k)

\* the output pixels follow the rule of the claim, the channels of a darkened
\* pixel being given by Dark
DiffRule(exact) ==
    Diffed =>
        /\ diff_img.width = diff_img1.width
        /\ diff_img.height = diff_img1.height
        /\ Len(diff_img.pixels) = 4 * diff_img1.width * diff_img1.height
        /\ \A y \in 0..(diff_img1.height - 1), x \in 0..(diff_img1.width - 1) :
            /\ Rgb(diff_img1, x, y) # Rgb(diff_img2, x, y)
                  => Rgba(diff_img, x, y) = <<255, 255, 255, 255>>
            /\ (Rgb(diff_img1, x, y) = Rgb(diff_img2, x, y) /\ Alpha(diff_img1, x, y) # 0)
                  => Rgba(diff_img, x, y)
                       = << Dark(Rgb(diff_img1, x, y)[1], diff_baseline, exact),
                            Dark(Rgb(diff_img1, x, y)[2], diff_baseline, exact),
                            Dark(Rgb(diff_img1, x, y)[3], diff_baseline, exact), 255 >>
            /\ (Rgb(diff_img1, x, y) = Rgb(diff_img2, x, y) /\ Alpha(diff_img1, x, y) = 0)
                  => Rgba(diff_img, x, y) = <<0, 0, 0, 0>>
            /\ diff_img1 = diff_img2
                  => \/ Alpha(diff_img, x, y) = 0
                     \/ Rgba(diff_img, x, y)
                          = << Dark(Rgb(diff_img1, x, y)[1], diff_baseline, exact),
                               Dark(Rgb(diff_img1, x, y)[2], diff_baseline, exact),
                               Dark(Rgb(diff_img1, x, y)[3], diff_baseline, exact), 255 >>

\* C5 as stated: diff_image decides every output pixel from the baseline's
\* transparency only: where the RGB triples differ the pixel is opaque white;
\* otherwise, where the baseline pixel is opaque, it is opaque with each
\* channel floor(baseline channel * k); otherwise it stays untouched; for
\* identical images every pixel is untouched or the darkened baseline colour.
C5_AsStated == DiffRule(TRUE)

\* C5, amended: as stated, but each channel of a darkened pixel is the
\* product baseline channel * k computed in single precision (rounded to the
\* nearest f32, ties to even) and then truncated: floor(channel * k), or one
\* more when channel * k lies within half a unit in the last place of the next
\* integer.
C5_DiffByBaseline == DiffRule(FALSE)

\* C5 witness: at slider step 1 (k just below 0.01) the first pixel is
\* untouched in the baseline and opaque black in the candidate, and stays
\* untouched; the second is the same opaque (200, 248, 8) in both and comes out
\* as (2, 2, 0), 200 * k being rounded up to 2 before the truncation
C5_Witness ==
    /\ Diffed
    /\ diff_baseline = [m |-> 10737418, e |-> -30]
    /\ diff_img1 = [width |-> 2, height |-> 1, pixels |-> <<0, 0, 0, 0, 200, 248, 8, 255>>]
    /\ diff_img2 = [width |-> 2, height |-> 1, pixels |-> <<0, 0, 0, 255, 200, 248, 8, 255>>]
    /\ diff_img.pixels = <<0, 0, 0, 0, 2, 2, 0, 255>>
    /\ FloorOfProduct(200, diff_baseline) = 1

\* the bitmaps of the state's 8x8tiles.gfx, one per 32 bytes
SpecificGfxFile ==
    FileSystems[file_system][Join(SceTilesetPath(States[state_idx + 1].gfx_set), "8x8tiles.gfx")]

\* C11 as stated: in the merged tileset the 8x8 bitmap list holds the common
\* bitmaps at the low end and the specific bitmaps after them: merged.gfx[i]
\* is common.gfx[i] for every i below the number of common bitmaps and
\* merged.gfx[number of common bitmaps + j] is specific.gfx[j] for every j.
C11_AsStated ==
    r_pc = "render" =>
        /\ Len(tileset.gfx) = Len(cre_tileset.gfx) + Len(sce_gfx)
        /\ \A i \in 0..(Len(cre_tileset.gfx) - 1) : tileset.gfx[i + 1] = cre_tileset.gfx[i + 1]
        /\ \A j \in 0..(Len(sce_gfx) - 1) :
            tileset.gfx[Len(cre_tileset.gfx) + j + 1] = sce_gfx[j + 1]

\* C11, amended: in the merged tileset the 8x8 bitmap list holds the specific
\* bitmaps at the low end and the common bitmaps after them: merged.gfx[j] is
\* specific.gfx[j] for every j below the number of specific bitmaps and
\* merged.gfx[number of specific bitmaps + i] is common.gfx[i] for every i, the
\* specific bitmaps being the records of the state's 8x8tiles.gfx; the bitmaps
\* use the opposite ordering from the 16x16 tiles.
C11_MergedGfxOrder ==
    r_pc = "render" =>
        /\ Len(tileset.gfx) = Len(sce_gfx) + Len(cre_tileset.gfx)
        /\ \A j \in 0..(Len(sce_gfx) - 1) : tileset.gfx[j + 1] = sce_gfx[j + 1]
        /\ \A i \in 0..(Len(cre_tileset.gfx) - 1) :
            tileset.gfx[Len(sce_gfx) + i + 1] = cre_tileset.gfx[i + 1]
        /\ Len(sce_gfx) * 32 = Len(SpecificGfxFile)
        /\ \A j \in 0..(Len(sce_gfx) - 1) :
            sce_gfx[j + 1] = decode_8x8_tile_data_4bpp(SubSeq(SpecificGfxFile, 32 * j + 1, 32 * j + 32))
        /\ tileset.tiles = cre_tileset.tiles \o sce_tiles

\* C11 witness: a tileset merged from six specific and two common bitmaps, the
\* first specific one differing from the first common one
C11_Witness ==
    /\ r_pc = "render"
    /\ Len(sce_gfx) = 6
    /\ Len(cre_tileset.gfx) = 2
    /\ Len(tileset.gfx) = 8
    /\ sce_gfx[1] # cre_tileset.gfx[1]
    /\ tileset.gfx[1] = sce_gfx[1]
    /\ tileset.gfx[7] = cre_tileset.gfx[1]

\* the components of a symbolic link's target, in the order they are written
WrittenComponents(link) == PathComponents(Repo[link].content)

\* the step taken is the resolution of a symbolic link: this load met one more
\* symlink entry and goes on walking
SymlinkResolved == fs_pc = "walking" /\ fs_pc' = "walking" /\ met' = met + 1

\* C12: a step that resolves a symlink entry leaves the current object and the
\* parent stack unchanged (the link is an entry of the current tree and is
\* resolved relative to it); the name of the link is taken off the pending
\* components and the components of the link target are put in its place, the
\* first written component of the target next to be consumed and the rest of
\* the requested path beneath them; every step of the walk consumes the next
\* pending component only, leaving the ones beneath it untouched.
C12_SymlinkInPlace ==
    /\ [][ SymlinkResolved =>
             \E name \in DOMAIN Repo[obj].entries :
                LET link == Repo[obj].entries[name]
                    target == WrittenComponents(link.oid)
                    rest == Front(components)
                IN  /\ Last(components) = name
                    /\ link.mode = SymlinkMode
                    /\ obj' = obj
                    /\ parents' = parents
                    /\ Len(components') = Len(rest) + Len(target)
                    /\ SubSeq(components', 1, Len(rest)) = rest
                    /\ \A i \in 1..Len(target) :
                          components'[Len(components') + 1 - i] = target[i] ]_vars
    /\ [][ (fs_pc = "walking" /\ fs_pc' = "walking") =>
             /\ components # <<>>
             /\ Len(components') >= Len(components) - 1
             /\ SubSeq(components', 1, Len(components) - 1) = Front(components) ]_vars

\* C12 witness: in d/l/f the link l, whose target is ../d, has just been
\* resolved inside the tree d: `..` is next, then d, then the requested f
C12_Witness ==
    /\ fs_pc = "walking"
    /\ path = ChainPath(1)
    /\ met = 1
    /\ obj = "treeD"
    /\ parents = <<RootTree>>
    /\ components = <<"f", "d", "..">>

\* the step taken resolves a non-symlink entry of the current tree and goes on
EntryResolved ==
    /\ fs_pc = "walking"
    /\ fs_pc' = "walking"
    /\ components # <<>>
    /\ Last(components) # ".."
    /\ met' = met

\* C13: when a non-symlink entry is resolved it becomes the current object and
\* the parent stack grows by one element only if that entry is a tree;
\* resolving an entry that is a blob pushes nothing.
C13_AsStated ==
    [][ EntryResolved =>
          /\ obj' = Repo[obj].entries[Last(components)].oid
          /\ Len(parents') = Len(parents) + (IF Kind(obj') = "tree" THEN 1 ELSE 0) ]_vars

\* C13 failing input: f/../f, with f a blob of the root tree, returns the
\* bytes of f: resolving the blob pushed the root tree, which `..` then pops
C13_BlobPushed ==
    /\ Returned
    /\ path = <<"f", "..", "f">>
    /\ load_result = Ok(<<"DATA_F">>)

\* the state of the loop of lines 36-74: current object, parent stack, pending
\* components, symlink resolutions left, and the value returned once it is known
Walk(o, ps, cs, limit) ==
    [obj |-> o, parents |-> ps, components |-> cs, limit |-> limit, result |-> NoResult]

Stopped(w, res) == [w EXCEPT !.result = res]

\* lines 36-78: one iteration of the loop, or the return after it; a walk that
\* has returned stays as it is
WalkStep(w) ==
    IF w.result # NoResult THEN w
    ELSE IF w.components = <<>> THEN Stopped(w, FinalResult(w.obj))
    ELSE IF Last(w.components) = ".."
    THEN IF PopParent(w.parents, w.obj).fail
         THEN Stopped(w, Err("OutOfRootTraversal"))
         ELSE Walk(PopParent(w.parents, w.obj).obj, PopParent(w.parents, w.obj).parents,
                   Front(w.components), w.limit)
    ELSE IF LookupError(w.obj, Last(w.components)) # ""
    THEN Stopped(w, Err(LookupError(w.obj, Last(w.components))))
    ELSE IF Repo[w.obj].entries[Last(w.components)].mode = SymlinkMode
    THEN IF LimitReached(w.limit) THEN Stopped(w, Err("SymlinkCycle"))
         ELSE IF ~as_blob(Repo[w.obj].entries[Last(w.components)].oid)
         THEN Stopped(w, Err("SymlinkNotABlob"))
         ELSE Walk(w.obj, w.parents,
                   Front(w.components) \o
                       get_components(
                           Repo[Repo[w.obj].entries[Last(w.components)].oid].content),
                   w.limit - 1)
    ELSE Walk(Repo[w.obj].entries[Last(w.components)].oid, Append(w.parents, w.obj),
              Front(w.components), w.limit)

\* eight iterations at a time
WalkSteps(w) ==
    WalkStep(WalkStep(WalkStep(WalkStep(WalkStep(WalkStep(WalkStep(WalkStep(w))))))))

\* the value load returns when the walk stands at object o with parent stack
\* ps, pending components cs and `limit` symlink resolutions left
RECURSIVE WalkResult(_)
WalkResult(w) ==
    IF w.result # NoResult THEN w.result ELSE WalkResult(WalkSteps(w))

WalkFrom(o, ps, cs, limit) == WalkResult(Walk(o, ps, cs, limit))

\* the names of the entries of tree t that are trees and not symbolic links
Subtrees(t) ==
    {d \in DOMAIN Repo[t].entries :
        /\ Repo[t].entries[d].mode # SymlinkMode
        /\ Repo[t].entries[d].oid \in DOMAIN Repo
        /\ as_tree(Repo[t].entries[d].oid)}

\* C14: `..` undoes exactly one descent.  While load walks, the current object
\* is the root tree when the parent stack is empty and otherwise an entry of
\* the tree on top of the stack, the bottom of the stack is the root tree and
\* every tree above it is an entry of the one beneath; the value the walk goes
\* on to return is the value load returns; and at every point of every walk
\* where the current object is a tree, putting d/.. in front of the pending
\* components, for d a non-symlink subtree of that tree, gives the same
\* returned value (same bytes or same failure) as the pending components alone.
C14_ParentUndoesDescent ==
    /\ fs_pc = "walking" =>
          /\ parents = <<>> => obj = RootTree
          /\ parents # <<>> =>
                /\ obj \in Children(Last(parents))
                /\ parents[1] = RootTree
                /\ \A i \in 2..Len(parents) : parents[i] \in Children(parents[i - 1])
          /\ as_tree(obj) =>
                \A d \in Subtrees(obj) :
                    WalkFrom(obj, parents, components \o <<"..", d>>, symlink_limit)
                        = WalkFrom(obj, parents, components, symlink_limit)
    /\ Returned =>
          load_result = WalkFrom(RootTree, <<>>, get_components(path), SymlinkLimit)

\* C14 witness: a/../f has returned the bytes of the root's f, as f does
C14_Witness ==
    /\ Returned
    /\ path = <<"a", "..", "f">>
    /\ load_result = Ok(<<"DATA_F">>)
    /\ WalkFrom(RootTree, <<>>, <<"f">>, SymlinkLimit) = Ok(<<"DATA_F">>)

\* the longest symbolic link target of the database, in components

MaxOf(S) ==
    IF S = {} THEN 0 ELSE CHOOSE y \in S : \A z \in S : z <= y

LongestTarget ==
    MaxOf({Len(get_components(Repo[o].content)) : o \in {b \in DOMAIN Repo : as_blob(b)}})

\* what is left of a walk: every symlink resolution left may put a whole
\* target on the pending components
WorkLeft(limit, cs) == limit * (LongestTarget + 1) + Len(cs)

\* C15: load terminates for every path and every object graph, symlinks that
\* refer to themselves or to each other and targets of several components
\* included: a load that has started returns bytes or an error; while it walks
\* the symlink budget stays between 0 and 40, and every iteration of the loop
\* that does not return strictly decreases the work left (budget times the
\* longest target plus one, plus the pending components).
C15_LoadTerminates ==
    /\ (fs_pc = "walking") ~> (fs_pc = "done" /\ load_result.status \in {"ok", "err"})
    /\ [](fs_pc = "walking" => symlink_limit \in 0..SymlinkLimit)
    /\ [][ (fs_pc = "walking" /\ fs_pc' = "walking") =>
             WorkLeft(symlink_limit', components') < WorkLeft(symlink_limit, components) ]_vars

\* C15 witness: d/p/f, where p and q are links to each other and q's target
\* has three components, has returned SymlinkCycle after 41 symlink entries
C15_Witness ==
    /\ Returned
    /\ path = <<"d", "p", "f">>
    /\ met = SymlinkLimit + 1
    /\ load_result = Err("SymlinkCycle")

\* call p on an image does what C16 says of render_tile_8x8: where its texel
\* is 0 it writes nothing; where it is not, the pixel it writes is pixel
\* (x0 + x, y0 + y) of the image, inside the image, and the colour written is
\* palette[palette_index*16 + texel]
TileAsStated(image, p, ts) ==
    \A dx \in 0..7, dy \in 0..7 :
        LET texel == TexelAt(p.tile, ts, dx, dy)
            n     == PixelNumber(image.width, p.x + dx, p.y + dy)
        IN  /\ texel = 0 => ~PaintWrites(p, ts, image.width, n)
            /\ texel # 0 =>
                /\ PaintWrites(p, ts, image.width, n)
                /\ n % image.width = p.x + dx
                /\ n \div image.width = p.y + dy
                /\ p.y + dy < image.height
                /\ PaintColor(p, ts, image.width, n)
                      = ts.palette[p.tile.palette * 16 + texel + 1]

\* C16: render_tile_8x8 at origin (x0, y0) touches only the 64 pixels of that
\* 8x8 block: when the texel read for (x, y) is 0 the destination pixel is left
\* unchanged, otherwise pixel (x0 + x, y0 + y) gets the RGB of
\* palette[palette_index*16 + texel] and alpha 255; stated of every call made
\* for both layers of the state just rendered.
C16_AsStated ==
    JustRendered =>
        /\ \A k \in 1..Len(layer1_list[state_idx].paints) :
              TileAsStated(layer1_list[state_idx], layer1_list[state_idx].paints[k], tileset)
        /\ \A k \in 1..Len(layer2_list[state_idx].paints) :
              TileAsStated(layer2_list[state_idx], layer2_list[state_idx].paints[k], tileset)

\* C16 failing input: a state whose layer-1 screen lies in the column after
\* the room's last was rendered, and a pixel of row 1 at the left edge of the
\* image is opaque although no call was made for a block that holds it
C16_WrongPixel ==
    /\ JustRendered
    /\ States[state_idx].level_data.layer_1.screen # <<>>
    /\ States[state_idx].level_data.layer_1.screen[1].x = room.width
    /\ \E x \in 0..7 :
        /\ PixelAt(layer1_list[state_idx], tileset, x, 1)[4] = 255
        /\ \A k \in 1..Len(layer1_list[state_idx].paints) :
              layer1_list[state_idx].paints[k].x > x

\* a DECOMP block of exactly 2048 words
DoubleScreenBlock(block) == block.type_ = "DECOMP" /\ Len(block.source) = 2048

\* the number, among the calls made for a 2048-word block on an image w wide,
\* of the call for word i (from 0) of the half that screen (sx, sy) shows: the
\* left half (words 0..1023) on even columns, the right half on odd ones
DoubleCall(w, sx, sy, i) ==
    (sy * (w \div 512) + (sx \div 2)) * 2048 + (sx % 2) * 1024 + i + 1

\* screen (sx, sy) of the image received, from block number b, the tiles of
\* its half of the double-screen: word i at ((i%32)*8, (i/32)*8) of the screen
ScreenReceives(image, blocks, b, sx, sy) ==
    LET before == CallsOf(SubSeq(blocks, 1, b - 1), image.width, image.height) IN
    \A i \in 0..1023 :
        /\ before + DoubleCall(image.width, sx, sy, i) <= Len(image.paints)
        /\ image.paints[before + DoubleCall(image.width, sx, sy, i)]
              = [ x    |-> sx * 256 + (i % 32) * 8,
                  y    |-> sy * 256 + (i \div 32) * 8,
                  tile |-> PlainTile(blocks[b].source[(sx % 2) * 1024 + i + 1] % 65536) ]

\* C17: for a DECOMP block of exactly 2048 words, render_bgdata paints words
\* 0..1023 as the left 256x256 half and words 1024..2047 as the right half of
\* a 512x256 double-screen and tiles the double-screen across the image, so
\* that for every room width, odd or even, every 256x256 screen of the image
\* receives background tiles.
C17_AsStated ==
    JustRendered =>
        \A b \in 1..Len(States[state_idx].bg_data.data) :
            DoubleScreenBlock(States[state_idx].bg_data.data[b]) =>
                \A sy \in 0..(room.height - 1), sx \in 0..(room.width - 1) :
                    ScreenReceives(layer2_list[state_idx], States[state_idx].bg_data.data,
                                   b, sx, sy)

\* C17 failing input: a state with a 2048-word DECOMP block was rendered for a
\* room one screen wide, and its layer-2 image received no call at all
C17_NoBackground ==
    /\ JustRendered
    /\ room.width = 1
    /\ Len(States[state_idx].bg_data.data) = 1
    /\ DoubleScreenBlock(States[state_idx].bg_data.data[1])
    /\ layer2_list[state_idx].paints = <<>>

\* a room two screens wide has both halves painted, each on its own screen
C17_EvenWidth ==
    (JustRendered /\ room.width % 2 = 0) =>
        \A b \in 1..Len(States[state_idx].bg_data.data) :
            DoubleScreenBlock(States[state_idx].bg_data.data[b]) =>
                \A sy \in 0..(room.height - 1), sx \in 0..(room.width - 1) :
                    ScreenReceives(layer2_list[state_idx], States[state_idx].bg_data.data,
                                   b, sx, sy)

\* the 8x8 blocks whose pixels are compared: one under the first layer-2 tile,
\* one under a later tile of the first row, one below the first two rows
SampleBlocks == {<<0, 0>>, <<80, 0>>, <<24, 32>>}

\* the last call among `calls` that writes pixel number n, 0 if none does
LastWriter(image, ts, n, calls) ==
    IF \E k \in calls : PaintWrites(image.paints[k], ts, image.width, n)
    THEN SetMax({k \in calls : PaintWrites(image.paints[k], ts, image.width, n)})
    ELSE 0

\* pixel (x, y) of a layer-2 image whose first nb calls are the background's:
\* the colour of the last screen-grid texel that is not 0 there, else of the
\* last background texel that is not 0 there, else transparent
Composited(image, ts, x, y, nb, near) ==
    LET n   == PixelNumber(image.width, x, y)
        top == LastWriter(image, ts, n, {k \in near : k > nb})
        bot == LastWriter(image, ts, n, {k \in near : k <= nb})
    IN  IF top # 0 THEN PaintColor(image.paints[top], ts, image.width, n) \o <<255>>
        ELSE IF bot # 0 THEN PaintColor(image.paints[bot], ts, image.width, n) \o <<255>>
        ELSE <<0, 0, 0, 0>>

\* the pixels of the block at b of a layer-2 image are composited
BlockComposited(image, ts, b, nb, near) ==
    \A y \in 0..7, x \in 0..7 :
        (b[1] + x < image.width /\ b[2] + y < image.height) =>
            PixelAmong(image, ts, b[1] + x, b[2] + y, near)
              = Composited(image, ts, b[1] + x, b[2] + y, nb, near)

\* C18: for every room state the layer-2 image is painted background
\* descriptor first and layer-2 screen-grid tiles afterwards, the last write
\* winning per pixel: a pixel has the colour of the last screen-grid texel that
\* is not 0 there, else of the last background texel that is not 0 there, else
\* it is transparent (a 0 texel of a screen-grid tile does not erase the
\* background); the layer-1 image is made of the calls for the layer-1
\* screen-grid tiles only, whatever the background descriptor holds.
C18_LayerOrder ==
    JustRendered =>
        LET st == States[state_idx]
            l1 == layer1_list[state_idx]
            l2 == layer2_list[state_idx]
            nb == CallsOf(st.bg_data.data, l2.width, l2.height)
        IN  /\ Len(l2.paints) = nb + 4 * WordCount(st.level_data.layer_2.screen)
            /\ SubSeq(l2.paints, 1, nb) = BgPaints(st.bg_data.data, l2.width, l2.height)
            /\ SubSeq(l2.paints, nb + 1, Len(l2.paints))
                  = ScreensPaints(st.level_data.layer_2.screen, tileset)
            /\ l1.paints = ScreensPaints(st.level_data.layer_1.screen, tileset)
            /\ \A b \in SampleBlocks :
                  BlockComposited(l2, tileset, b, nb, CallsNear(l2, b[1], b[2]))

\* C18 witness: a state with a 1024-word background under a layer-2 screen was
\* rendered: at (0, 0) the screen's tile covers the background, at (80, 0) the
\* screen's texels are 0 and the background shows, at (24, 32) neither wrote
\* and the pixel is transparent; layer 1 holds its three words' twelve calls
C18_Witness ==
    /\ JustRendered
    /\ Len(States[state_idx].bg_data.data) = 1
    /\ FullScreenBlock(States[state_idx].bg_data.data[1])
    /\ Len(States[state_idx].level_data.layer_2.screen) = 1
    /\ Len(layer1_list[state_idx].paints) = 12
    /\ LET l2 == layer2_list[state_idx]
           nb == CallsOf(States[state_idx].bg_data.data, l2.width, l2.height)
       IN  /\ LastWriter(l2, tileset, PixelNumber(l2.width, 0, 0), 1..nb) # 0
           /\ LastWriter(l2, tileset, PixelNumber(l2.width, 0, 0), 1..Len(l2.paints)) > nb
           /\ LastWriter(l2, tileset, PixelNumber(l2.width, 80, 0), 1..Len(l2.paints))
                 \in 1..nb
           /\ \E k \in (nb + 1)..Len(l2.paints) : l2.paints[k].x = 80 /\ l2.paints[k].y = 0
           /\ PixelAt(l2, tileset, 80, 0)[4] = 255
           /\ PixelAt(l2, tileset, 24, 32) = <<0, 0, 0, 0>>

\* a screen of some layer of some state of the room lies outside the room
ScreenOutsideRoom ==
    \E k \in 1..Len(States) :
        \E s \in { States[k].level_data.layer_1.screen[i] :
                      i \in 1..Len(States[k].level_data.layer_1.screen) }
                 \cup
                 { States[k].level_data.layer_2.screen[i] :
                      i \in 1..Len(States[k].level_data.layer_2.screen) } :
            s.x >= room.width \/ s.y >= room.height

\* C19: every failure of a render request reaches the caller as an error
\* value: render_room never aborts the program (a file that ends inside a
\* record, a bitmap index, tile-table index or palette slot outside the merged
\* tileset all make it return Err), and it returns images only for rooms whose
\* screens all lie inside the room.
C19_AsStated ==
    /\ r_pc # "panicked"
    /\ (RoomReturned /\ render_result.status = "ok") => ~ScreenOutsideRoom

\* C19 failing input: the palette of graphics set 00 lacks its last byte, and
\* the request has aborted while loading the first state's tileset
C19_Aborted ==
    /\ r_pc = "panicked"
    /\ file_system = "ragged"
    /\ Len(FileSystems[file_system][Join(SceTilesetPath(0), "palette.snes")]) % 2 = 1
    /\ state_idx = 0
    /\ States[1].gfx_set = 0
    /\ render_result = NoRoomResult

(***************************************************************************)
(* The application of main.rs.  The documents of the projects and what     *)
(* render_room makes of them are fixed below; a screen of a room is one    *)
(* pixel of its images.  RoomImages and RoomData carry one more field,     *)
(* `of`, the project and room they were rendered for (not program state).  *)
(***************************************************************************)
\* main.rs:228-249: the room documents of each project, sorted by name
ProjectRooms ==
    [ P1 |-> <<"A", "B", "C", "D", "E">>,
      P2 |-> <<"A", "H", "W">>,
      P3 |-> <<>> ]

\* an image of w x h pixels, all opaque and of colour (c, c, c)
UiImage(w, h, c) ==
    [ width  |-> w,
      height |-> h,
      pixels |-> [i \in 1..(w * h * 4) |-> IF i % 4 = 0 THEN 255 ELSE c] ]

\* room.rs:337-341: the RoomImages of a room of n states, w x h screens
Rendered(p, r, n, w, h, c) ==
    [ status |-> "ok",
      images |-> [ room_state_names |-> [k \in 1..n |-> "s" \o ToString(k) \o ": 0"],
                   layer1           |-> [k \in 1..n |-> UiImage(w, h, c + k)],
                   layer2           |-> [k \in 1..n |-> UiImage(w, h, c + 10 + k)],
                   of               |-> <<p, r>> ] ]

\* render_room returns an error
RenderErr == [status |-> "err", images |-> <<>>]

\* render_room panics (an index out of range in room.rs)
RenderPanic == [status |-> "panic", images |-> <<>>]

\* what render_room returns for each room document from the working copy and
\* from the git reference:
\*   P1/A  one state on both sides
\*   P1/B  two states in the working copy, one in the reference
\*   P1/C  two states in the working copy, absent from the reference
\*   P1/D  does not parse in the working copy
\*   P1/E  has no state
\*   P2/A  two states on both sides, the images differ
\*   P2/H  two screens wide in the working copy, one in the reference
\*   P2/W  a tile index out of range in the working copy
World ==
    (<<"P1", "A">> :> [ working   |-> Rendered("P1", "A", 1, 1, 1, 20),
                        reference |-> Rendered("P1", "A", 1, 1, 1, 20) ])
    @@ (<<"P1", "B">> :> [ working   |-> Rendered("P1", "B", 2, 1, 1, 40),
                           reference |-> Rendered("P1", "B", 1, 1, 1, 40) ])
    @@ (<<"P1", "C">> :> [ working   |-> Rendered("P1", "C", 2, 1, 1, 60),
                           reference |-> RenderErr ])
    @@ (<<"P1", "D">> :> [ working   |-> RenderErr,
                           reference |-> Rendered("P1", "D", 1, 1, 1, 80) ])
    @@ (<<"P1", "E">> :> [ working   |-> Rendered("P1", "E", 0, 1, 1, 100),
                           reference |-> Rendered("P1", "E", 0, 1, 1, 100) ])
    @@ (<<"P2", "A">> :> [ working   |-> Rendered("P2", "A", 2, 1, 1, 120),
                           reference |-> Rendered("P2", "A", 2, 1, 1, 140) ])
    @@ (<<"P2", "H">> :> [ working   |-> Rendered("P2", "H", 1, 2, 1, 160),
                           reference |-> Rendered("P2", "H", 1, 1, 1, 160) ])
    @@ (<<"P2", "W">> :> [ working   |-> RenderPanic,
                           reference |-> Rendered("P2", "W", 1, 1, 1, 180) ])

\* room.rs:296-342 as the application sees it: a room document that is not
\* there makes the first load fail
UiRenderRoom(p, r, fs) ==
    IF <<p, r>> \in DOMAIN World THEN World[<<p, r>>][fs] ELSE RenderErr

\* main.rs:66-70
ModifiedRoom(p, r) == [project |-> p, room_name |-> r]

\* main.rs:194-226: the rooms that differ from the reference, sorted
ModifiedRooms == <<ModifiedRoom("P1", "B"), ModifiedRoom("P1", "C"), ModifiedRoom("P2", "A")>>

\* main.rs:251-256: a handle made of each image's width, height and pixels
convert_images(images) ==
    [k \in 1..Len(images) |->
        [width |-> images[k].width, height |-> images[k].height, rgba |-> images[k].pixels]]

\* main.rs:282-287: zip stops at the shorter list
diff_image_list(img1, img2, baseline) ==
    [k \in 1..(IF Len(img1) <= Len(img2) THEN Len(img1) ELSE Len(img2)) |->
        diff_image(img1[k], img2[k], baseline)]

\* main.rs:282-287: some diff_image of the zip panics
diff_image_list_panics(img1, img2) ==
    \E k \in 1..(IF Len(img1) <= Len(img2) THEN Len(img1) ELSE Len(img2)) :
        diff_image_panics(img1[k], img2[k])

\* main.rs:109-114
RoomData(width, height, layer1, layer2, of) ==
    [width |-> width, height |-> height, layer1 |-> layer1, layer2 |-> layer2, of |-> of]

\* most messages of returned tasks waiting to be delivered
MaxPending == 1

imageVars == <<working_images, other_images, working_image_handles,
               other_image_handles, diff_image_handles>>

\* the other components are idle; update is followed by a new view, so every
\* message discards the frame drawn before it
UiFrame == UNCHANGED <<fsVars, decVars, renderVars, diffVars>>

\* main.rs:289-312: refresh_diff_images panics (`layer1[0]`, or a get_pixel of
\* diff_image past the reference's smaller image)
refresh_diff_images_panics(w, o) ==
    /\ w # None
    /\ o # None
    /\ \/ w[1].layer1 = <<>>
       \/ diff_image_list_panics(w[1].layer1, o[1].layer1)
       \/ diff_image_list_panics(w[1].layer2, o[1].layer2)

\* main.rs:289-312: diff_image_handles after refresh_diff_images, for
\* state.working_images w, state.other_images o and the handles d held before
refresh_diff_images(w, o, baseline, d) ==
    IF w = None \/ o = None THEN d
    ELSE Some(RoomData(w[1].layer1[1].width,
                       w[1].layer1[1].height,
                       convert_images(diff_image_list(w[1].layer1, o[1].layer1, baseline)),
                       convert_images(diff_image_list(w[1].layer2, o[1].layer2, baseline)),
                       w[1].of))

\* main.rs:317-323
RoomStates(names) == [i \in 1..Len(names) |-> RoomState(i - 1, names[i])]

\* main.rs:314-358 for the results w and o of the two render_room calls: an
\* error returns with what was assigned before it (ui_pc becomes errpc), a
\* panic ends the application, success leaves ui_pc at okpc
RoomImagesRefreshed(w, o, okpc, errpc) ==
    IF w.status = "panic"
    THEN /\ ui_pc' = "crashed"
         /\ UNCHANGED <<room_state, room_state_list, imageVars>>
    ELSE IF w.status = "err" \/ w.images.room_state_names = <<>>
    THEN /\ ui_pc' = errpc
         /\ UNCHANGED <<room_state, room_state_list, imageVars>>
    ELSE /\ room_state' = RoomStates(w.images.room_state_names)[1]
         /\ room_state_list' = RoomStates(w.images.room_state_names)
         /\ IF o.status # "ok"
            THEN /\ ui_pc' = IF o.status = "panic" THEN "crashed" ELSE errpc
                 /\ UNCHANGED imageVars
            ELSE /\ working_images' = Some(w.images)
                 /\ other_images' = Some(o.images)
                 /\ working_image_handles' =
                       Some(RoomData(w.images.layer1[1].width, w.images.layer1[1].height,
                                     convert_images(w.images.layer1),
                                     convert_images(w.images.layer2), w.images.of))
                 /\ other_image_handles' =
                       Some(RoomData(w.images.layer1[1].width, w.images.layer1[1].height,
                                     convert_images(o.images.layer1),
                                     convert_images(o.images.layer2), o.images.of))
                 /\ IF refresh_diff_images_panics(Some(w.images), Some(o.images))
                    THEN /\ ui_pc' = "crashed"
                         /\ UNCHANGED diff_image_handles
                    ELSE /\ ui_pc' = okpc
                         /\ diff_image_handles' =
                               refresh_diff_images(Some(w.images), Some(o.images),
                                                   difference_baseline, diff_image_handles)

\* main.rs:314-358
refresh_room_images(p, r, okpc, errpc) ==
    RoomImagesRefreshed(UiRenderRoom(p, r, "working"), UiRenderRoom(p, r, "reference"),
                        okpc, errpc)

InSeq(x, s) == \E i \in 1..Len(s) : s[i] = x

\* main.rs:228-249: the room and the room list refresh_room_list leaves for
\* project p when state.room is r and state.room_list is old
refresh_room_list(p, r, old) ==
    IF ProjectRooms[p] = <<>>
    THEN [ok |-> FALSE, room |-> r, room_list |-> old]
    ELSE [ ok        |-> TRUE,
           room      |-> IF InSeq(r, ProjectRooms[p]) THEN r ELSE ProjectRooms[p][1],
           room_list |-> ProjectRooms[p] ]

\* main.rs:136-192: get_initial_state; main has no State when it fails
Start ==
    /\ UiFrame
    /\ ui_pc = "off"
    /\ ui_room' = refresh_room_list(project, ui_room, room_list).room
    /\ room_list' = refresh_room_list(project, ui_room, room_list).room_list
    /\ IF refresh_room_list(project, ui_room, room_list).ok
       THEN refresh_room_images(project, ui_room', "running", "failed")
       ELSE /\ ui_pc' = "failed"
            /\ UNCHANGED <<room_state, room_state_list, imageVars>>
    /\ UNCHANGED <<project, modified_room_idx, show_layer_1, show_layer_2,
                   difference_baseline, source_selection, pending, frame>>

\* main.rs:363-393: a character key that changes what is shown ("t", "-" and
\* "=" change highlight_transparency and pixel_size, which are not modelled)
KeyPressed ==
    /\ UiFrame
    /\ frame' = <<>>
    /\ ui_pc = "running"
    /\ \E c \in {"1", "2", "w", "r", "d"} :
        /\ show_layer_1' = IF c = "1" THEN ~show_layer_1 ELSE show_layer_1
        /\ show_layer_2' = IF c = "2" THEN ~show_layer_2 ELSE show_layer_2
        /\ source_selection' = CASE c = "w" -> "WorkingCopy"
                                 [] c = "r" -> "GitReference"
                                 [] c = "d" -> "Difference"
                                 [] OTHER -> source_selection
    /\ UNCHANGED <<ui_pc, project, ui_room, room_list, room_state_list, room_state,
                   modified_room_idx, difference_baseline, imageVars, pending>>

\* main.rs:398-401, 411-414: the index an arrow key moves the selection to
ArrowIndex(down, idx) ==
    IF down
    THEN (IF idx = None THEN 0 ELSE idx[1] + 1)
    ELSE (IF idx # None /\ idx[1] > 0 THEN idx[1] - 1 ELSE 0)

\* main.rs:394-419: ArrowDown or ArrowUp inside the list moves the selection
\* and returns the task that delivers SelectModifiedRoom
ArrowKey ==
    /\ UiFrame
    /\ frame' = <<>>
    /\ ui_pc = "running"
    /\ Len(pending) < MaxPending
    /\ \E down \in BOOLEAN :
        /\ ArrowIndex(down, modified_room_idx) < Len(ModifiedRooms)
        /\ modified_room_idx' = Some(ArrowIndex(down, modified_room_idx))
        /\ pending' = Append(pending, ArrowIndex(down, modified_room_idx))
    /\ UNCHANGED <<ui_pc, project, ui_room, room_list, room_state_list, room_state,
                   show_layer_1, show_layer_2, difference_baseline, source_selection,
                   imageVars>>

\* main.rs:422-426
SelectProject ==
    /\ UiFrame
    /\ frame' = <<>>
    /\ ui_pc = "running"
    /\ \E p \in {Projects[i] : i \in 1..Len(Projects)} :
        /\ project' = p
        /\ ui_room' = refresh_room_list(p, ui_room, room_list).room
        /\ room_list' = refresh_room_list(p, ui_room, room_list).room_list
        /\ IF refresh_room_list(p, ui_room, room_list).ok
           THEN refresh_room_images(p, ui_room', ui_pc, ui_pc)
           ELSE UNCHANGED <<ui_pc, room_state, room_state_list, imageVars>>
    /\ UNCHANGED <<modified_room_idx, show_layer_1, show_layer_2, difference_baseline,
                   source_selection, pending>>

\* main.rs:427-430: a room of the combo box
SelectRoom ==
    /\ UiFrame
    /\ frame' = <<>>
    /\ ui_pc = "running"
    /\ \E i \in 1..Len(room_list) :
        /\ ui_room' = room_list[i]
        /\ refresh_room_images(project, room_list[i], ui_pc, ui_pc)
    /\ UNCHANGED <<project, room_list, modified_room_idx, show_layer_1, show_layer_2,
                   difference_baseline, source_selection, pending>>

\* main.rs:431-433: a state of the combo box
SelectRoomState ==
    /\ UiFrame
    /\ frame' = <<>>
    /\ ui_pc = "running"
    /\ \E i \in 1..Len(room_state_list) : room_state' = room_state_list[i]
    /\ UNCHANGED <<ui_pc, project, ui_room, room_list, room_state_list,
                   modified_room_idx, show_layer_1, show_layer_2, difference_baseline,
                   source_selection, imageVars, pending>>

\* main.rs:434-436
SelectSource ==
    /\ UiFrame
    /\ frame' = <<>>
    /\ ui_pc = "running"
    /\ \E src \in {"WorkingCopy", "GitReference", "Difference"} : source_selection' = src
    /\ UNCHANGED <<ui_pc, project, ui_room, room_list, room_state_list, room_state,
                   modified_room_idx, show_layer_1, show_layer_2, difference_baseline,
                   imageVars, pending>>

\* main.rs:437-442
ShowLayer ==
    /\ UiFrame
    /\ frame' = <<>>
    /\ ui_pc = "running"
    /\ \E layer \in {1, 2}, b \in BOOLEAN :
        /\ show_layer_1' = IF layer = 1 THEN b ELSE show_layer_1
        /\ show_layer_2' = IF layer = 2 THEN b ELSE show_layer_2
    /\ UNCHANGED <<ui_pc, project, ui_room, room_list, room_state_list, room_state,
                   modified_room_idx, difference_baseline, source_selection, imageVars,
                   pending>>

\* the slider step the difference baseline is moved to
UiHundredths == {53}

\* main.rs:446-449
AdjustDifferenceBaseline ==
    /\ UiFrame
    /\ frame' = <<>>
    /\ ui_pc = "running"
    /\ \E h \in UiHundredths :
        /\ difference_baseline' = F32OfHundredths(h)
        /\ IF refresh_diff_images_panics(working_images, other_images)
           THEN /\ ui_pc' = "crashed"
                /\ UNCHANGED diff_image_handles
           ELSE /\ UNCHANGED ui_pc
                /\ diff_image_handles' =
                      refresh_diff_images(working_images, other_images,
                                          F32OfHundredths(h), diff_image_handles)
    /\ UNCHANGED <<project, ui_room, room_list, room_state_list, room_state,
                   modified_room_idx, show_layer_1, show_layer_2, source_selection,
                   working_images, other_images, working_image_handles,
                   other_image_handles, pending>>

\* main.rs:450-460: the message SelectModifiedRoom(idx)
ModifiedRoomSelected(idx) ==
    /\ modified_room_idx' = Some(idx)
    /\ project' = ModifiedRooms[idx + 1].project
    /\ IF project # ModifiedRooms[idx + 1].project
       THEN /\ ui_room' = refresh_room_list(ModifiedRooms[idx + 1].project,
                                            ModifiedRooms[idx + 1].room_name, room_list).room
            /\ room_list' = refresh_room_list(ModifiedRooms[idx + 1].project,
                                              ModifiedRooms[idx + 1].room_name,
                                              room_list).room_list
       ELSE /\ ui_room' = ModifiedRooms[idx + 1].room_name
            /\ UNCHANGED room_list
    /\ IF /\ project # ModifiedRooms[idx + 1].project
          /\ ~refresh_room_list(ModifiedRooms[idx + 1].project,
                                ModifiedRooms[idx + 1].room_name, room_list).ok
       THEN UNCHANGED <<ui_pc, room_state, room_state_list, imageVars>>
       ELSE refresh_room_images(ModifiedRooms[idx + 1].project, ui_room', ui_pc, ui_pc)
    /\ frame' = <<>>
    /\ UNCHANGED <<show_layer_1, show_layer_2, difference_baseline, source_selection>>

\* main.rs:450-460: an entry of the selection list is clicked
SelectModifiedRoom ==
    /\ UiFrame
    /\ ui_pc = "running"
    /\ \E idx \in 0..(Len(ModifiedRooms) - 1) : ModifiedRoomSelected(idx)
    /\ UNCHANGED pending

\* main.rs:404, 417, 450-460: the message of a returned task is delivered
DeliverTask ==
    /\ UiFrame
    /\ ui_pc = "running"
    /\ pending # <<>>
    /\ ModifiedRoomSelected(Head(pending))
    /\ pending' = Tail(pending)

\* main.rs:520-524: the image set draw takes for the source selected
SelectedHandles ==
    CASE source_selection = "WorkingCopy" -> working_image_handles
      [] source_selection = "GitReference" -> other_image_handles
      [] OTHER -> diff_image_handles

\* main.rs:520-540: draw panics on `unwrap()` of no image set or on an index
\* past the layer list of a layer that is shown
DrawPanics ==
    \/ SelectedHandles = None
    \/ show_layer_2 /\ room_state.idx >= Len(SelectedHandles[1].layer2)
    \/ show_layer_1 /\ room_state.idx >= Len(SelectedHandles[1].layer1)

\* main.rs:482-543: RoomCanvas::draw, called for every view of the state
Draw ==
    /\ UiFrame
    /\ ui_pc = "running"
    /\ IF working_image_handles = None
       THEN /\ frame' = <<>>
            /\ UNCHANGED ui_pc
       ELSE IF DrawPanics
       THEN /\ ui_pc' = "crashed"
            /\ UNCHANGED frame
       ELSE /\ UNCHANGED ui_pc
            /\ frame' =
                  (IF show_layer_2
                   THEN <<SelectedHandles[1].layer2[room_state.idx + 1]>> ELSE <<>>)
                  \o (IF show_layer_1
                      THEN <<SelectedHandles[1].layer1[room_state.idx + 1]>> ELSE <<>>)
    /\ UNCHANGED <<project, ui_room, room_list, room_state_list, room_state,
                   modified_room_idx, show_layer_1, show_layer_2, difference_baseline,
                   source_selection, imageVars, pending>>

InitUi ==
    /\ LoadIdle
    /\ DecodeIdle
    /\ RenderIdle
    /\ DiffIdle
    /\ UiIdle

NextUi ==
    \/ Start
    \/ KeyPressed
    \/ ArrowKey
    \/ SelectProject
    \/ SelectRoom
    \/ SelectRoomState
    \/ SelectSource
    \/ ShowLayer
    \/ AdjustDifferenceBaseline
    \/ SelectModifiedRoom
    \/ DeliverTask
    \/ Draw

SpecUi == InitUi /\ [][NextUi]_vars

(***************************************************************************)
(* C20                                                                     *)
(***************************************************************************)
\* the image sets RoomCanvas::draw chooses from (main.rs:520-524)
DisplaySets == {working_image_handles, other_image_handles, diff_image_handles} \ {None}

\* the selected room-state index is inside both layer lists of every set
IndexInEverySet ==
    \A h \in DisplaySets :
        /\ room_state.idx < Len(h[1].layer1)
        /\ room_state.idx < Len(h[1].layer2)

\* the sets were rendered for one room
SetsOfOneRoom == \A h1, h2 \in DisplaySets : h1[1].of = h2[1].of

\* C20: after any sequence of UI messages, also when a render of the working
\* copy or of the git reference fails and when a room has more states in the
\* working copy than in the reference, the selected room-state index is a
\* valid index into layer1 and layer2 of the working-copy, git-reference and
\* difference image sets, the sets belong to the same room, and so
\* RoomCanvas::draw does not panic.
C20_AsStated ==
    /\ ui_pc # "crashed" => (IndexInEverySet /\ SetsOfOneRoom)
    /\ ui_pc = "running" => ~DrawPanics

\* C20: draw indexed the one-state reference images of room B with the second
\* state of its working copy and panicked.
C20_DrawOutOfRange ==
    /\ ui_pc = "crashed"
    /\ ui_room = "B"
    /\ source_selection = "GitReference"
    /\ room_state.idx = 1
    /\ other_image_handles # None
    /\ Len(other_image_handles[1].layer1) = 1
    /\ Len(room_state_list) = 2

====
